---- MODULE Spec2Model ----
(***************************************************************************)
(* Provider matching and ranking (src/lib/matching/algorithm.ts).          *)
(*                                                                         *)
(* matchProviders filters a provider list by status, service and city,     *)
(* gives every eligible provider a 100-point match score and badges, and   *)
(* sorts by score; getTopProviders takes the first entries of that list.   *)
(* The score is computed with JavaScript numbers, which are IEEE-754       *)
(* binary64 values, so the arithmetic below is binary64 arithmetic         *)
(* (round to nearest, ties to even) and not arithmetic on the reals.       *)
(*                                                                         *)
(* Around the matching: the quote pages and their price calculators        *)
(* (SpecQuote), the providers table with its row level security and the    *)
(* administrative workflow (SpecProviders), and the booking of a job with  *)
(* its deposit, its status changes and its completion payment              *)
(* (SpecPayments).                                                         *)
(***************************************************************************)
EXTENDS Integers, Sequences, FiniteSets, TLC

(***************************************************************************)
(* JavaScript numbers.  A non-negative binary64 value v is held as the     *)
(* integer v * 2^61, written in limbs of 15 bits, least significant first. *)
(* Every binary64 value in [2^-9, 2^28) is a multiple of 2^-61 below 2^89, *)
(* and every value the scoring and the pricing code produce is 0 or lies   *)
(* in that range (the smallest is 0.01 / 5), so the representation is      *)
(* exact.                                                                  *)
(***************************************************************************)
NLimbs == 6
LimbBits == 15
LimbBase == 2^LimbBits
FracLimbs == 4
MantissaBits == 53

SetMax(S) == CHOOSE x \in S : \A y \in S : y <= x

\* TLC evaluates LET definitions on demand; Then(v, e) evaluates v before e
\* so that chained arithmetic is evaluated in program order.
Then(v, e) == IF v = v THEN e ELSE e

BigZero == [i \in 1..NLimbs |-> 0]
BigOne == [i \in 1..NLimbs |-> IF i = 1 THEN 1 ELSE 0]

RECURSIVE BigAddRec(_, _, _, _)
BigAddRec(a, b, i, carry) ==
    IF i > NLimbs THEN <<>>
    ELSE LET s == a[i] + b[i] + carry
         IN <<s % LimbBase>> \o BigAddRec(a, b, i + 1, s \div LimbBase)

BigAdd(a, b) == BigAddRec(a, b, 1, 0)

RECURSIVE BigMulRec(_, _, _, _)
BigMulRec(a, k, i, carry) ==
    IF i > NLimbs THEN <<>>
    ELSE LET s == a[i] * k + carry
         IN <<s % LimbBase>> \o BigMulRec(a, k, i + 1, s \div LimbBase)

BigMulSmall(a, k) == BigMulRec(a, k, 1, 0)

RECURSIVE BigDivRec(_, _, _, _)
BigDivRec(a, d, i, rem) ==
    IF i = 0 THEN [q |-> <<>>, r |-> rem]
    ELSE LET cur == rem * LimbBase + a[i]
             rest == BigDivRec(a, d, i - 1, cur % d)
         IN [q |-> rest.q \o <<cur \div d>>, r |-> rest.r]

BigDivSmall(a, d) == BigDivRec(a, d, NLimbs, 0)

RECURSIVE IntBitLen(_)
IntBitLen(n) == IF n = 0 THEN 0 ELSE 1 + IntBitLen(n \div 2)

BigBitLen(a) ==
    LET nz == {i \in 1..NLimbs : a[i] # 0}
    IN IF nz = {} THEN 0
       ELSE (SetMax(nz) - 1) * LimbBits + IntBitLen(a[SetMax(nz)])

BigLess(a, b) ==
    LET d == {i \in 1..NLimbs : a[i] # b[i]}
    IN d # {} /\ a[SetMax(d)] < b[SetMax(d)]

\* Shifts by s bits: whole limbs first, then the bits within a limb.
Limb(a, i) == IF i \in 1..NLimbs THEN a[i] ELSE 0

ShiftRight(a, s) ==
    LET l == s \div LimbBits
        b == s % LimbBits
    IN [i \in 1..NLimbs |->
           (Limb(a, i + l) \div 2^b)
               + (Limb(a, i + l + 1) % 2^b) * 2^(LimbBits - b)]

ShiftLeft(a, s) ==
    LET l == s \div LimbBits
        b == s % LimbBits
    IN [i \in 1..NLimbs |->
           (Limb(a, i - l) % 2^(LimbBits - b)) * 2^b
               + (Limb(a, i - l - 1) \div 2^(LimbBits - b))]

\* Bit n of a (bit 0 is the lowest), and whether a bit below bit n is set.
BitAt(a, n) == (a[(n \div LimbBits) + 1] \div 2^(n % LimbBits)) % 2 = 1

AnyBitBelow(a, n) ==
    \/ \E i \in 1..(n \div LimbBits) : a[i] # 0
    \/ a[(n \div LimbBits) + 1] % 2^(n % LimbBits) # 0

\* q is the integer part of an exact value, half the first bit after its
\* point and sticky whether any later bit is set: the nearest binary64
\* value (ties to even).  q is cut to 53 significant bits, and the bits cut
\* off together with half and sticky decide the direction.
RoundCut(q, half, sticky) ==
    LET len == BigBitLen(q)
        s == IF len > MantissaBits THEN len - MantissaBits ELSE 0
    IN IF s = 0
       THEN IF half /\ (sticky \/ q[1] % 2 = 1) THEN BigAdd(q, BigOne) ELSE q
       ELSE LET kept == ShiftRight(q, s)
                up == /\ BitAt(q, s - 1)
                      /\ \/ AnyBitBelow(q, s - 1) \/ half \/ sticky
                         \/ kept[1] % 2 = 1
                m == IF up THEN BigAdd(kept, BigOne) ELSE kept
            IN Then(<<kept, m>>, ShiftLeft(m, s))

\* The binary64 value nearest to the exact quotient n / d (ties to even).
RoundToDouble(n, d) ==
    LET qr == BigDivSmall(n, d)
    IN Then(<<n, qr>>,
            RoundCut(qr.q, 2 * qr.r >= d,
                     IF 2 * qr.r >= d THEN 2 * qr.r > d ELSE qr.r > 0))

\* An integer literal or integer column as a number (exact).
FromInt(n) ==
    [i \in 1..NLimbs |->
        IF i = FracLimbs + 1 THEN (2 * n) % LimbBase
        ELSE IF i = FracLimbs + 2 THEN (2 * n) \div LimbBase ELSE 0]

\* A DECIMAL(3,2) column value of r hundredths as the number the client
\* parses from it: the binary64 value nearest to r / 100.
FromHundredths(r) == RoundToDouble(FromInt(r), 100)

NumDiv(x, k) == RoundToDouble(x, k)
NumMul(x, k) == RoundToDouble(BigMulSmall(x, k), 1)
NumAdd(x, y) == RoundToDouble(BigAdd(x, y), 1)
NumGeq(x, y) == ~BigLess(x, y)

MathMin(x, y) == IF BigLess(y, x) THEN y ELSE x

\* x - y for x >= y (the exact difference, rounded).
RECURSIVE BigSubRec(_, _, _, _)
BigSubRec(a, b, i, borrow) ==
    IF i > NLimbs THEN <<>>
    ELSE LET s == a[i] - b[i] - borrow
         IN <<(s + LimbBase) % LimbBase>>
                \o BigSubRec(a, b, i + 1, IF s < 0 THEN 1 ELSE 0)

NumSub(x, y) == RoundToDouble(BigSubRec(x, y, 1, 0), 1)

\* The product of two numbers.  The exact product of the two scaled
\* integers is formed in twice the limbs, row by row; it is the product
\* times 2^122, so the 61 bits cut off on the right are the part of the
\* product below 2^-61 and decide, with the bits cut to reach 53
\* significant bits, the direction of the rounding.
WideLimbs == 2 * NLimbs

RECURSIVE WideRowRec(_, _, _, _, _, _)
WideRowRec(acc, a, k, j, i, carry) ==
    IF i > WideLimbs THEN <<>>
    ELSE LET t == acc[i] + carry
                  + (IF i - j + 1 \in 1..NLimbs THEN a[i - j + 1] * k ELSE 0)
         IN <<t % LimbBase>> \o WideRowRec(acc, a, k, j, i + 1, t \div LimbBase)

RECURSIVE WideMulRec(_, _, _, _)
WideMulRec(a, b, j, acc) ==
    IF j > NLimbs THEN acc
    ELSE LET row == WideRowRec(acc, a, b[j], j, 1, 0)
         IN Then(row, WideMulRec(a, b, j + 1, row))

WideMul(a, b) == WideMulRec(a, b, 1, [i \in 1..WideLimbs |-> 0])

NumTimes(x, y) ==
    LET p == WideMul(x, y)
        q == [i \in 1..NLimbs |->
                 (p[i + FracLimbs] \div 2)
                     + (p[i + FracLimbs + 1] % 2) * (LimbBase \div 2)]
    IN Then(<<p, q>>,
            RoundCut(q, p[FracLimbs + 1] % 2 = 1,
                     \E i \in 1..FracLimbs : p[i] # 0))

\* Math.round: the integer nearest to x, a fraction of exactly one half
\* rounding towards +infinity; computed exactly as floor(x + 1/2).
MathRound(x) ==
    LET t == BigAdd(x, [i \in 1..NLimbs |-> IF i = FracLimbs + 1 THEN 1 ELSE 0])
    IN (t[FracLimbs + 1] \div 2) + t[FracLimbs + 2] * (LimbBase \div 2)

(***************************************************************************)
(* Provider records.  rating and total_reviews are nullable: Null is the   *)
(* absent value and <<v>> the value v.  rating is a DECIMAL(3,2) column    *)
(* and is written in hundredths (<<490>> is 4.90); services and cities     *)
(* are arrays searched with includes and are written as sets.              *)
(***************************************************************************)
Null == <<>>

MaxProviders == 3
MaxVariants == 1
MaxLimit == 4
DefaultLimit == 3

ServiceTypes == {"cleaning", "landscaping", "pool"}
Cities == {"Gilbert", "Mesa", "Chandler"}
PricingTiers == {"budget", "standard", "premium"}
Statuses == {"pending", "approved", "suspended"}

RatingValues == {Null, <<0>>, <<282>>, <<450>>, <<480>>, <<490>>, <<500>>}
YearsValues == {0, 5, 10, 12}
ReviewValues == {Null, <<0>>, <<8>>, <<25>>, <<50>>, <<210>>}

Provider(id, name, services, cities, tier, years, insured, rating, reviews, status) ==
    [id |-> id, business_name |-> name, services |-> services, cities |-> cities,
     pricing_tier |-> tier, years_experience |-> years,
     insurance_verified |-> insured, rating |-> rating,
     total_reviews |-> reviews, status |-> status]

\* x || 0 for a nullable number: null and 0 are falsy.
OrZero(x) == IF x = Null \/ x[1] = 0 THEN 0 ELSE x[1]

(***************************************************************************)
(* matchProviders, lines 35-40: the eligibility filter.                    *)
(***************************************************************************)
\* Variants of the filter with one condition lost.
EligibleIgnoringStatus(p, serviceType, city) ==
    /\ serviceType \in p.services
    /\ city \in p.cities

EligibleAnyCity(p, serviceType, city) ==
    /\ p.status = "approved"
    /\ serviceType \in p.services

EligibleRated(p, serviceType, city) ==
    /\ p.status = "approved"
    /\ serviceType \in p.services
    /\ city \in p.cities
    /\ p.rating # Null

EligibleAnyService(p, serviceType, city) ==
    /\ p.status = "approved"
    /\ city \in p.cities

Eligible(p, serviceType, city) ==
    /\ p.status = "approved"
    /\ serviceType \in p.services
    /\ city \in p.cities

(***************************************************************************)
(* matchProviders, lines 44-66: the score before rounding.                 *)
(***************************************************************************)
\* Variants of the components: a ramp without its cap, and the insurance
\* points given on the opposite condition.
ExpScoreUncapped(expYears) == NumMul(NumDiv(expYears, 10), 20)

ReviewScoreUncapped(reviews) == NumMul(NumDiv(reviews, 50), 15)

AddInsuranceNegated(score, insurance_verified) ==
    IF ~insurance_verified THEN NumAdd(score, FromInt(10)) ELSE score

ExpScore(expYears) == NumMul(MathMin(NumDiv(expYears, 10), FromInt(1)), 20)

ReviewScore(reviews) == NumMul(MathMin(NumDiv(reviews, 50), FromInt(1)), 15)

AddInsurance(score, insurance_verified) ==
    IF insurance_verified THEN NumAdd(score, FromInt(10)) ELSE score

Score(provider) ==
    LET score0 == FromInt(0)
        score1 == NumAdd(score0, FromInt(30))
        rating == FromHundredths(OrZero(provider.rating))
        score2 == NumAdd(score1, NumMul(NumDiv(rating, 5), 25))
        expYears == FromInt(provider.years_experience)
        score3 == NumAdd(score2, ExpScore(expYears))
        reviews == FromInt(OrZero(provider.total_reviews))
        score4 == NumAdd(score3, ReviewScore(reviews))
    IN Then(<<score1, score2, score3, score4>>,
            AddInsurance(score4, provider.insurance_verified))

(***************************************************************************)
(* matchProviders, lines 68-72: the badges, in the order they are pushed.  *)
(***************************************************************************)
\* The badges with 'Best Value' tested against the wrong tier.
BadgesWrongTier(provider) ==
    LET rating == FromHundredths(OrZero(provider.rating))
        reviews == FromInt(OrZero(provider.total_reviews))
    IN (IF NumGeq(rating, FromHundredths(480)) THEN <<"Top Rated">> ELSE <<>>)
       \o (IF provider.pricing_tier = "standard" THEN <<"Best Value">> ELSE <<>>)
       \o (IF NumGeq(reviews, FromInt(25)) /\ NumGeq(rating, FromHundredths(450))
           THEN <<"Most Reliable">> ELSE <<>>)

\* The badges with the review threshold of 'Most Reliable' exclusive.
BadgesExclusiveThreshold(provider) ==
    LET rating == FromHundredths(OrZero(provider.rating))
        reviews == FromInt(OrZero(provider.total_reviews))
    IN (IF NumGeq(rating, FromHundredths(480)) THEN <<"Top Rated">> ELSE <<>>)
       \o (IF provider.pricing_tier = "budget" THEN <<"Best Value">> ELSE <<>>)
       \o (IF BigLess(FromInt(25), reviews) /\ NumGeq(rating, FromHundredths(450))
           THEN <<"Most Reliable">> ELSE <<>>)

Badges(provider) ==
    LET rating == FromHundredths(OrZero(provider.rating))
        reviews == FromInt(OrZero(provider.total_reviews))
    IN (IF NumGeq(rating, FromHundredths(480)) THEN <<"Top Rated">> ELSE <<>>)
       \o (IF provider.pricing_tier = "budget" THEN <<"Best Value">> ELSE <<>>)
       \o (IF NumGeq(reviews, FromInt(25)) /\ NumGeq(rating, FromHundredths(450))
           THEN <<"Most Reliable">> ELSE <<>>)

\* The score raised by one point for every badge.
ScoredBadgeBonus(provider) ==
    [matchScore |-> MathRound(Score(provider)) + Len(Badges(provider)),
     badges |-> Badges(provider)]

\* The two fields the map callback adds to the provider (lines 74-78).
Scored(provider) ==
    [matchScore |-> MathRound(Score(provider)), badges |-> Badges(provider)]

\* The callback reads five fields of the provider; its result is tabulated
\* once over their values (@@ makes TLC build the table when it starts).
ScoredFields == {"rating", "years_experience", "total_reviews",
                 "insurance_verified", "pricing_tier"}
ReadFields(provider) == [f \in ScoredFields |-> provider[f]]
ScoredInputs ==
    [rating : RatingValues, years_experience : YearsValues,
     total_reviews : ReviewValues, insurance_verified : BOOLEAN,
     pricing_tier : PricingTiers]
ScoredTable == [k \in ScoredInputs |-> Scored(k)] @@ <<>>

\* The 30 city points divided by the number of cities the provider serves.
MapCallbackCityShare(provider) ==
    [matchScore |-> ScoredTable[ReadFields(provider)].matchScore
                        - 30 + (30 \div Cardinality(provider.cities)),
     badges |-> ScoredTable[ReadFields(provider)].badges] @@ provider

\* { ...provider, matchScore, badges }
MapCallback(provider) == ScoredTable[ReadFields(provider)] @@ provider

(***************************************************************************)
(* matchProviders, line 82: Array.prototype.sort is stable; an element is  *)
(* placed before the first one the comparator orders after it.             *)
(***************************************************************************)
\* The comparator with its operands exchanged (lowest first).
CompareAscending(a, b) == a.matchScore - b.matchScore

Compare(a, b) == b.matchScore - a.matchScore

\* An unstable sort: an element is placed before the ones it ties with.
InsertSortedBeforeEqual(sorted, x) ==
    LET after == {i \in 1..Len(sorted) : Compare(sorted[i], x) >= 0}
        k == IF after = {} THEN Len(sorted) + 1
             ELSE CHOOSE i \in after : \A j \in after : i <= j
    IN SubSeq(sorted, 1, k - 1) \o <<x>> \o SubSeq(sorted, k, Len(sorted))

InsertSorted(sorted, x) ==
    LET after == {i \in 1..Len(sorted) : Compare(sorted[i], x) > 0}
        k == IF after = {} THEN Len(sorted) + 1
             ELSE CHOOSE i \in after : \A j \in after : i <= j
    IN SubSeq(sorted, 1, k - 1) \o <<x>> \o SubSeq(sorted, k, Len(sorted))

RECURSIVE Sort(_)
Sort(list) ==
    IF list = <<>> THEN <<>>
    ELSE InsertSorted(Sort(SubSeq(list, 1, Len(list) - 1)), list[Len(list)])

\* Badges kept only by the first provider of the ranking.
matchProvidersLeaderBadges(input) ==
    LET eligibleProviders ==
            SelectSeq(input.providers,
                      LAMBDA p : Eligible(p, input.serviceType, input.city))
        scoredProviders ==
            [i \in 1..Len(eligibleProviders) |-> MapCallback(eligibleProviders[i])]
        sorted == Sort(scoredProviders)
    IN [i \in 1..Len(sorted) |->
           IF i = 1 THEN sorted[i] ELSE [sorted[i] EXCEPT !.badges = <<>>]]

matchProviders(input) ==
    LET eligibleProviders ==
            SelectSeq(input.providers,
                      LAMBDA p : Eligible(p, input.serviceType, input.city))
        scoredProviders ==
            [i \in 1..Len(eligibleProviders) |-> MapCallback(eligibleProviders[i])]
    IN Sort(scoredProviders)

(***************************************************************************)
(* Array.prototype.slice(start, end) and getTopProviders, lines 88-94.     *)
(***************************************************************************)
Slice(list, start, end) ==
    LET len == Len(list)
        Rel(k) == IF k < 0 THEN (IF len + k > 0 THEN len + k ELSE 0)
                  ELSE (IF k < len THEN k ELSE len)
    IN SubSeq(list, Rel(start) + 1, Rel(end))

\* The slice taken one element too far.
getTopProvidersOffByOne(input, limit) ==
    Slice(matchProviders(input), 0, limit + 1)

getTopProviders(input, limit) ==
    Slice(matchProviders(input), 0, limit)

(***************************************************************************)
(* The callers.  A page fetches provider rows and calls matchProviders or  *)
(* getTopProviders on them; the state is the call's arguments and its      *)
(* return value.  limit is the limit argument of a getTopProviders call    *)
(* and its default otherwise.                                              *)
(***************************************************************************)
VARIABLES providers, serviceType, city, call, limit, result, heap, frames,
          formData, providerTable, jobs, stripe, requests, view

vars == <<providers, serviceType, city, call, limit, result, heap, frames,
          formData, providerTable, jobs, stripe, requests, view>>

\* The quote form, the providers table, the jobs table, the payment
\* gateway, the payment requests in progress and the provider's job page
\* (see the sections on the quote pages, the provider status and the
\* jobs); the matching functions read and write none of them.
platform == <<formData, providerTable, jobs, stripe, requests, view>>

NoForm == <<>>
NoTable == <<>>
NoJobs == <<>>
NoStripe == <<>>
NoRequests == <<>>
NoView == <<>>

\* No quote form is open and the tables and the gateway are empty.
PlatformIdle ==
    /\ formData = NoForm
    /\ providerTable = NoTable
    /\ jobs = NoJobs
    /\ stripe = NoStripe
    /\ requests = NoRequests
    /\ view = NoView

\* heap and frames hold the objects and the local variables of calls that
\* run step by step (see the section on interleaved callers); they are
\* empty while calls are taken as single steps.
NoHeap == <<>>
NoFrames == <<>>

Input == [serviceType |-> serviceType, city |-> city, providers |-> providers]

\* Rows a fetch can return: approved, pending and suspended providers of
\* several services and cities, two rows with the same id, and rows whose
\* scores are equal.
ProviderPool ==
    { Provider("a", "Apex Home Services", {"cleaning", "pool"}, {"Gilbert", "Mesa"},
               "standard", 12, TRUE, <<490>>, <<210>>, "approved"),
      Provider("b", "Budget Shine", {"cleaning"}, {"Gilbert"},
               "budget", 0, FALSE, Null, Null, "approved"),
      Provider("c", "Apex Home Services", {"cleaning", "pool"}, {"Gilbert", "Mesa"},
               "standard", 12, TRUE, <<490>>, <<210>>, "pending"),
      Provider("d", "Desert Clean", {"cleaning", "landscaping"}, {"Gilbert", "Chandler"},
               "standard", 5, FALSE, <<500>>, Null, "approved"),
      Provider("s", "Sunset Pools", {"cleaning", "pool"}, {"Gilbert", "Mesa"},
               "premium", 10, TRUE, <<480>>, <<50>>, "suspended"),
      Provider("x", "Crystal Pools", {"pool"}, {"Gilbert"},
               "budget", 10, TRUE, <<480>>, <<50>>, "approved"),
      Provider("a", "Apex Home Services", {"cleaning", "pool"}, {"Gilbert", "Mesa"},
               "standard", 12, TRUE, <<480>>, <<25>>, "approved"),
      Provider("t", "Tidy Team", {"cleaning", "pool"}, {"Gilbert", "Mesa"},
               "premium", 10, FALSE, Null, <<50>>, "approved"),
      Provider("e", "Evergreen Care", {"cleaning"}, {"Gilbert"},
               "standard", 10, FALSE, Null, <<50>>, "approved") }

Init ==
    /\ providers = <<>>
    /\ serviceType \in {"cleaning", "pool"}
    /\ city \in {"Gilbert", "Mesa"}
    /\ call = "none"
    /\ limit = DefaultLimit
    /\ result = <<>>
    /\ heap = NoHeap
    /\ frames = NoFrames
    /\ PlatformIdle

\* The fetch returns one more row; no call has been made on the new list.
FetchProvider(p) ==
    /\ Len(providers) < MaxProviders
    /\ providers' = Append(providers, p)
    /\ call' = "none"
    /\ limit' = DefaultLimit
    /\ result' = <<>>
    /\ UNCHANGED <<serviceType, city, heap, frames, platform>>

CallMatchProviders ==
    /\ call' = "matchProviders"
    /\ limit' = DefaultLimit
    /\ result' = matchProviders(Input)
    /\ UNCHANGED <<providers, serviceType, city, heap, frames, platform>>

\* getTopProviders(input, n); a call without the second argument passes
\* DefaultLimit.
CallGetTopProviders(n) ==
    /\ call' = "getTopProviders"
    /\ limit' = n
    /\ result' = getTopProviders(Input, n)
    /\ UNCHANGED <<providers, serviceType, city, heap, frames, platform>>

Next ==
    \/ \E p \in ProviderPool : FetchProvider(p)
    \/ CallMatchProviders
    \/ \E n \in -1..MaxLimit : CallGetTopProviders(n)
    \/ CallGetTopProviders(DefaultLimit)

Spec == Init /\ [][Next]_vars

(***************************************************************************)
(* Scoring of single providers: one eligible provider with any values of   *)
(* the fields the score reads, followed by copies of it that differ in     *)
(* exactly one of those fields.                                            *)
(***************************************************************************)
ScoreDomain ==
    { Provider("p", "Provider", {"cleaning"}, {"Gilbert"}, k.pricing_tier,
               k.years_experience, k.insurance_verified, k.rating,
               k.total_reviews, "approved") : k \in ScoredInputs }

FieldValues(f) ==
    CASE f = "rating" -> RatingValues
      [] f = "years_experience" -> YearsValues
      [] f = "total_reviews" -> ReviewValues
      [] f = "insurance_verified" -> BOOLEAN
      [] f = "pricing_tier" -> PricingTiers

InitScore ==
    /\ providers \in {<<p>> : p \in ScoreDomain}
    /\ serviceType = "cleaning"
    /\ city = "Gilbert"
    /\ call = "none"
    /\ limit = DefaultLimit
    /\ result = <<>>
    /\ heap = NoHeap
    /\ frames = NoFrames
    /\ PlatformIdle

FetchVariant(f, v) ==
    /\ Len(providers) >= 1
    /\ Len(providers) <= MaxVariants
    /\ v # providers[1][f]
    /\ FetchProvider([providers[1] EXCEPT ![f] = v])

NextScore ==
    \/ \E f \in ScoredFields : \E v \in FieldValues(f) : FetchVariant(f, v)
    \/ CallMatchProviders

SpecScore == InitScore /\ [][NextScore]_vars

(***************************************************************************)
(* Interleaved callers.  Each caller runs one call of matchProviders or    *)
(* getTopProviders on its own input, one array operation at a time         *)
(* (filter, map, sort, slice), and the steps of different callers          *)
(* interleave in any order.  Arrays and objects live on one heap and are   *)
(* handled by reference: an array cell holds the addresses of its          *)
(* elements, an object cell holds its fields.  An address is <<c, n>>, the *)
(* n-th cell allocated by caller c; caller 0 is the module itself, whose   *)
(* first cell is MATCHING_CONFIG.weights.                                  *)
(***************************************************************************)
MaxCallers == 2
Callers == 1..MaxCallers

ArrayCell(items) == [kind |-> "array", val |-> items]
ObjectCell(fields) == [kind |-> "object", val |-> fields]

\* The heap h with the cell at address a set.
Put(h, a, cell) == (a :> cell) @@ h

ModuleAddr(n) == <<0, n>>
ConfigAddr == ModuleAddr(1)

\* MATCHING_CONFIG.weights, in hundredths (0.3 is 30).
ShippedWeights ==
    [distance |-> 30, rating |-> 25, experience |-> 20, reviews |-> 15,
     pricingTier |-> 10]

\* The weights table of constants.ts is fixed when the module is loaded;
\* beside the shipped table the model loads one with other weights.
WeightConfigurations ==
    { ShippedWeights,
      [distance |-> 20, rating |-> 35, experience |-> 20, reviews |-> 15,
       pricingTier |-> 10] }

\* The rows of the pool by id (of the two rows with id "a", the one with
\* the given rating).
PoolRow(id, rating) ==
    CHOOSE p \in ProviderPool : p.id = id /\ p.rating = rating

\* The inputs callers pass: the ranking of three providers, an empty list,
\* a list without eligible provider, a list with a row of another city, and
\* two providers with equal scores.
CallerInputs ==
    { [serviceType |-> "cleaning", city |-> "Gilbert",
       providers |-> <<PoolRow("a", <<490>>), PoolRow("b", Null),
                       PoolRow("d", <<500>>)>>],
      [serviceType |-> "cleaning", city |-> "Gilbert", providers |-> <<>>],
      [serviceType |-> "pool", city |-> "Gilbert",
       providers |-> <<PoolRow("b", Null), PoolRow("c", <<490>>)>>],
      [serviceType |-> "cleaning", city |-> "Mesa",
       providers |-> <<PoolRow("t", Null), PoolRow("d", <<500>>),
                       PoolRow("a", <<480>>)>>],
      [serviceType |-> "cleaning", city |-> "Gilbert",
       providers |-> <<PoolRow("d", <<500>>), PoolRow("t", Null)>>] }

\* The heap before any call: the weights table, and for every caller its
\* providers array (its cell 1) and the provider objects (cells 2, 3, ...).
InitialHeap(w, ins) ==
    [a \in {ConfigAddr} \cup
           UNION {{<<c, n>> : n \in 1..(Len(ins[c].providers) + 1)} : c \in Callers} |->
        IF a = ConfigAddr THEN ObjectCell(w)
        ELSE IF a[2] = 1
             THEN ArrayCell([i \in 1..Len(ins[a[1]].providers) |-> <<a[1], i + 1>>])
             ELSE ObjectCell(ins[a[1]].providers[a[2] - 1])]

\* The local variables of caller c: input is the MatchingInput object it
\* passes (providers by reference), given the same input by value as it was
\* when the caller built it; next is the caller's next free cell.
InitialFrame(c, in) ==
    [caller |-> c, pc |-> "idle", fn |-> "none", limit |-> DefaultLimit,
     input |-> [serviceType |-> in.serviceType, city |-> in.city,
                providers |-> <<c, 1>>],
     given |-> in,
     weights |-> Null, eligibleProviders |-> Null, scoredProviders |-> Null,
     matched |-> Null, returned |-> Null, next |-> Len(in.providers) + 2]

\* The result of a step: the heap and the caller's frame after it.
After(h, f) == [heap |-> h, frame |-> f]

\* Variant of the filter: the eligible providers are collected in an array
\* of the module that all calls share.
FilterStepSharedBuffer(h, f) ==
    LET items == SelectSeq(h[f.input.providers].val,
                           LAMBDA a : Eligible(h[a].val, f.input.serviceType,
                                               f.input.city))
    IN After(Put(h, ModuleAddr(2), ArrayCell(items)),
             [f EXCEPT !.pc = "map", !.weights = ConfigAddr,
                       !.eligibleProviders = ModuleAddr(2)])

\* Lines 31-40: the input is destructured, weights is bound to the shared
\* table, and filter allocates a new array holding the references of the
\* eligible elements.
FilterStep(h, f) ==
    LET items == SelectSeq(h[f.input.providers].val,
                           LAMBDA a : Eligible(h[a].val, f.input.serviceType,
                                               f.input.city))
        arr == <<f.caller, f.next>>
    IN After(Put(h, arr, ArrayCell(items)),
             [f EXCEPT !.pc = "map", !.weights = ConfigAddr,
                       !.eligibleProviders = arr, !.next = @ + 1])

\* The cells map allocates for the i-th element: the object and its badges.
ObjectAddr(f, i) == <<f.caller, f.next + 2 * i - 1>>
BadgesAddr(f, i) == <<f.caller, f.next + 2 * i>>

\* Variant of the map callback: matchScore and badges are assigned to the
\* provider object itself, which is returned.
MapStepInPlace(h, f) ==
    LET src == h[f.eligibleProviders].val
        n == Len(src)
        arr == <<f.caller, f.next>>
        badgeCells == {BadgesAddr(f, i) : i \in 1..n}
        written == {src[i] : i \in 1..n}
        Index(a) == CHOOSE i \in 1..n : a = BadgesAddr(f, i) \/ a = src[i]
        h2 == [a \in DOMAIN h \cup badgeCells \cup {arr} |->
                  IF a = arr THEN ArrayCell(src)
                  ELSE IF a \in badgeCells
                       THEN ArrayCell(MapCallback(h[src[Index(a)]].val).badges)
                  ELSE IF a \in written
                       THEN ObjectCell([MapCallback(h[a].val)
                                           EXCEPT !.badges = BadgesAddr(f, Index(a))])
                  ELSE h[a]]
    IN After(h2, [f EXCEPT !.pc = "sort", !.scoredProviders = arr,
                           !.next = @ + 2 * n + 1])

RECURSIVE SumScores(_, _, _)
SumScores(h, src, i) ==
    IF i = 0 THEN 0
    ELSE MapCallback(h[src[i]].val).matchScore + SumScores(h, src, i - 1)

\* Variant of the map callback: score is a variable of the module that is
\* never reset, so every score is added to all scores computed before.
MapStepModuleScore(h, f) ==
    LET src == h[f.eligibleProviders].val
        n == Len(src)
        arr == <<f.caller, f.next>>
        carry == IF ModuleAddr(3) \in DOMAIN h THEN h[ModuleAddr(3)].val ELSE 0
        objCells == {ObjectAddr(f, i) : i \in 1..n}
        badgeCells == {BadgesAddr(f, i) : i \in 1..n}
        Index(a) == CHOOSE i \in 1..n : a = ObjectAddr(f, i) \/ a = BadgesAddr(f, i)
        h2 == [a \in DOMAIN h \cup objCells \cup badgeCells \cup {arr, ModuleAddr(3)} |->
                  IF a = arr THEN ArrayCell([i \in 1..n |-> ObjectAddr(f, i)])
                  ELSE IF a = ModuleAddr(3)
                       THEN ObjectCell(carry + SumScores(h, src, n))
                  ELSE IF a \in objCells
                       THEN ObjectCell([MapCallback(h[src[Index(a)]].val)
                                           EXCEPT !.badges = BadgesAddr(f, Index(a)),
                                                  !.matchScore =
                                                      carry + SumScores(h, src, Index(a))])
                  ELSE IF a \in badgeCells
                       THEN ArrayCell(MapCallback(h[src[Index(a)]].val).badges)
                  ELSE h[a]]
    IN After(h2, [f EXCEPT !.pc = "sort", !.scoredProviders = arr,
                           !.next = @ + 2 * n + 1])

\* Lines 43-79: map allocates a new array, and its callback allocates for
\* every element a badges array and a new object that copies the provider's
\* fields ({ ...provider }) and adds matchScore and badges.
MapStep(h, f) ==
    LET src == h[f.eligibleProviders].val
        n == Len(src)
        arr == <<f.caller, f.next>>
        objCells == {ObjectAddr(f, i) : i \in 1..n}
        badgeCells == {BadgesAddr(f, i) : i \in 1..n}
        Index(a) == CHOOSE i \in 1..n : a = ObjectAddr(f, i) \/ a = BadgesAddr(f, i)
        h2 == [a \in DOMAIN h \cup objCells \cup badgeCells \cup {arr} |->
                  IF a = arr THEN ArrayCell([i \in 1..n |-> ObjectAddr(f, i)])
                  ELSE IF a \in objCells
                       THEN ObjectCell([MapCallback(h[src[Index(a)]].val)
                                           EXCEPT !.badges = BadgesAddr(f, Index(a))])
                  ELSE IF a \in badgeCells
                       THEN ArrayCell(MapCallback(h[src[Index(a)]].val).badges)
                  ELSE h[a]]
    IN After(h2, [f EXCEPT !.pc = "sort", !.scoredProviders = arr,
                           !.next = @ + 2 * n + 1])

\* Line 82: sort reorders scoredProviders itself by the comparator, which
\* reads the matchScore of the objects, and returns the same array.
\* matchProviders returns it; getTopProviders binds it to matched.
SortStep(h, f) ==
    LET items == h[f.scoredProviders].val
        keyed == [i \in 1..Len(items) |->
                     [addr |-> items[i], matchScore |-> h[items[i]].val.matchScore]]
        sorted == Sort(keyed)
        h2 == [h EXCEPT ![f.scoredProviders] =
                   ArrayCell([i \in 1..Len(items) |-> sorted[i].addr])]
    IN IF f.fn = "matchProviders"
       THEN After(h2, [f EXCEPT !.pc = "done", !.returned = f.scoredProviders])
       ELSE After(h2, [f EXCEPT !.pc = "slice", !.matched = f.scoredProviders])

\* Line 93: slice allocates a new array with the first references of
\* matched.
SliceStep(h, f) ==
    LET arr == <<f.caller, f.next>>
    IN After(Put(h, arr, ArrayCell(Slice(h[f.matched].val, 0, f.limit))),
             [f EXCEPT !.pc = "done", !.returned = arr, !.next = @ + 1])

\* The configuration is loaded and every caller has built its input.
InitCallers ==
    /\ providers = <<>>
    /\ serviceType = "cleaning"
    /\ city = "Gilbert"
    /\ call = "none"
    /\ limit = DefaultLimit
    /\ result = <<>>
    /\ \E w \in WeightConfigurations : \E ins \in [Callers -> CallerInputs] :
           /\ heap = InitialHeap(w, ins)
           /\ frames = [c \in Callers |-> InitialFrame(c, ins[c])]
    /\ PlatformIdle

\* Caller c calls matchProviders(input) or getTopProviders(input, n).
EnterCall(c, fn, n) ==
    /\ frames[c].pc = "idle"
    /\ frames' = [frames EXCEPT ![c].pc = "filter", ![c].fn = fn, ![c].limit = n]
    /\ UNCHANGED <<providers, serviceType, city, call, limit, result, heap,
                   platform>>

\* Caller c takes the step its call has arrived at.
RunStep(c, after) ==
    /\ heap' = after.heap
    /\ frames' = [frames EXCEPT ![c] = after.frame]
    /\ UNCHANGED <<providers, serviceType, city, call, limit, result, platform>>

RunFilter(c) ==
    /\ frames[c].pc = "filter"
    /\ RunStep(c, FilterStep(heap, frames[c]))

RunMap(c) ==
    /\ frames[c].pc = "map"
    /\ RunStep(c, MapStep(heap, frames[c]))

RunSort(c) ==
    /\ frames[c].pc = "sort"
    /\ RunStep(c, SortStep(heap, frames[c]))

RunSlice(c) ==
    /\ frames[c].pc = "slice"
    /\ RunStep(c, SliceStep(heap, frames[c]))

NextCallers ==
    \E c \in Callers :
        \/ EnterCall(c, "matchProviders", DefaultLimit)
        \/ EnterCall(c, "getTopProviders", 1)
        \/ RunFilter(c)
        \/ RunMap(c)
        \/ RunSort(c)
        \/ RunSlice(c)

SpecCallers == InitCallers /\ [][NextCallers]_vars

(***************************************************************************)
(* The quote pages (Cleaning, Landscaping, Pool).  A page renders, from    *)
(* the fetched rows and the selected city, one card per pricing tier: the  *)
(* first provider getTopProviders returns for the rows of that tier.  The  *)
(* cards are computed in the render and are not state of their own; page   *)
(* is the service type the page passes, its only difference from the       *)
(* other two pages.                                                        *)
(***************************************************************************)
\* The tier filter lost: every card is computed from all rows.
TierProvidersUnfiltered(list, tier) == list

\* The tier filter returning its rows in the opposite order.
TierProvidersReversed(list, tier) ==
    LET kept == SelectSeq(list, LAMBDA p : p.pricing_tier = tier)
    IN [i \in 1..Len(kept) |-> kept[Len(kept) + 1 - i]]

\* providers.filter((p) => p.pricing_tier === tier)
TierProviders(list, tier) == SelectSeq(list, LAMBDA p : p.pricing_tier = tier)

\* budgetProviders, standardProviders and premiumProviders; the card of a
\* tier is rendered when the list is not empty and shows its element 0.
QuoteCard(page, tier) ==
    getTopProviders([serviceType |-> page, city |-> city,
                     providers |-> TierProviders(providers, tier)], 1)

(***************************************************************************)
(* The price calculators (src/lib/pricing) and PRICING_CONFIG              *)
(* (src/lib/constants.ts).  A calculator reads the quote form and the tier *)
(* name and nothing else; its arithmetic is binary64 arithmetic, and the   *)
(* total is Math.round(total * 100) / 100.                                 *)
(***************************************************************************)
\* A numeric literal of PRICING_CONFIG with at most two decimals.
Literal(hundredths) == FromHundredths(hundredths)

CleaningConfig ==
    [baseRate |-> Literal(15),
     frequencyMultipliers |->
         [f \in {"one-time", "weekly", "bi-weekly", "monthly"} |->
             Literal(CASE f = "one-time" -> 150 [] f = "weekly" -> 80
                       [] f = "bi-weekly" -> 100 [] f = "monthly" -> 120)],
     deepCleanMultiplier |-> Literal(150),
     addOns |-> [windows |-> 50, fridge |-> 30, oven |-> 40],
     tierMultipliers |->
         [budget |-> Literal(85), standard |-> Literal(100),
          premium |-> Literal(125)]]

LandscapingConfig ==
    [basePricePerSqft |-> Literal(2),
     terrainMultipliers |->
         [flat |-> Literal(100), sloped |-> Literal(130),
          very_sloped |-> Literal(160)],
     services |->
         [mowing |-> Literal(100), edging |-> Literal(30),
          trimming |-> Literal(40), leaf_removal |-> Literal(50),
          debris |-> Literal(60)],
     tierMultipliers |->
         [budget |-> Literal(80), standard |-> Literal(100),
          premium |-> Literal(130)]]

PoolConfig ==
    [basePrices |->
         [t \in {"in-ground", "above-ground"} |->
             IF t = "in-ground"
             THEN [small |-> 80, medium |-> 100, large |-> 130]
             ELSE [small |-> 60, medium |-> 75, large |-> 95]],
     frequencyMultipliers |->
         [f \in {"weekly", "bi-weekly"} |->
             Literal(IF f = "weekly" THEN 100 ELSE 130)],
     services |-> [chemical_balancing |-> 15, equipment_check |-> 25],
     tierMultipliers |->
         [budget |-> Literal(85), standard |-> Literal(100),
          premium |-> Literal(120)]]

\* Math.round(total * 100) / 100
RoundToCents(total) == NumDiv(FromInt(MathRound(NumMul(total, 100))), 100)

calculateCleaningPrice(input) ==
    LET config == CleaningConfig
        basePrice == NumTimes(FromInt(input.squareFeet), config.baseRate)
        frequencyAdjustment ==
            NumTimes(basePrice, config.frequencyMultipliers[input.frequency])
        deepCleanFee ==
            IF input.deepClean
            THEN NumTimes(basePrice, config.deepCleanMultiplier) ELSE BigZero
        addOnsFee ==
            (IF input.addOns.windows THEN config.addOns.windows ELSE 0)
                + (IF input.addOns.fridge THEN config.addOns.fridge ELSE 0)
                + (IF input.addOns.oven THEN config.addOns.oven ELSE 0)
        subtotal ==
            NumAdd(NumAdd(frequencyAdjustment, deepCleanFee), FromInt(addOnsFee))
        total == NumTimes(subtotal, config.tierMultipliers[input.pricingTier])
    IN Then(<<basePrice, frequencyAdjustment, deepCleanFee, subtotal, total>>,
            [basePrice |-> basePrice,
             frequencyAdjustment |-> frequencyAdjustment,
             deepCleanFee |-> deepCleanFee,
             addOnsFee |-> addOnsFee,
             tierMultiplier |-> config.tierMultipliers[input.pricingTier],
             subtotal |-> subtotal,
             total |-> RoundToCents(total)])

\* servicesMultiplier += config.services[s], for the selected services in
\* the order of the if statements.
RECURSIVE ServicesMultiplier(_, _, _)
ServicesMultiplier(services, order, sum) ==
    IF order = <<>> THEN sum
    ELSE LET next == IF services[Head(order)]
                     THEN NumAdd(sum, LandscapingConfig.services[Head(order)])
                     ELSE sum
         IN Then(next, ServicesMultiplier(services, Tail(order), next))

calculateLandscapingPrice(input) ==
    LET config == LandscapingConfig
        basePrice == NumTimes(FromInt(input.lotSize), config.basePricePerSqft)
        terrainAdjustment ==
            NumTimes(basePrice, config.terrainMultipliers[input.terrain])
        servicesMultiplier ==
            ServicesMultiplier(input.services,
                <<"mowing", "edging", "trimming", "leaf_removal", "debris">>,
                BigZero)
        servicesFee == NumTimes(terrainAdjustment, servicesMultiplier)
        subtotal == NumAdd(terrainAdjustment, servicesFee)
        total == NumTimes(subtotal, config.tierMultipliers[input.pricingTier])
    IN Then(<<basePrice, terrainAdjustment, servicesMultiplier, servicesFee,
              subtotal, total>>,
            [basePrice |-> basePrice,
             terrainAdjustment |-> terrainAdjustment,
             servicesFee |-> servicesFee,
             tierMultiplier |-> config.tierMultipliers[input.pricingTier],
             subtotal |-> subtotal,
             total |-> RoundToCents(total)])

calculatePoolPrice(input) ==
    LET config == PoolConfig
        basePrice == config.basePrices[input.poolType][input.poolSize]
        frequencyAdjustment ==
            NumTimes(FromInt(basePrice),
                     config.frequencyMultipliers[input.frequency])
        servicesFee ==
            (IF input.services.chemical_balancing
             THEN config.services.chemical_balancing ELSE 0)
                + (IF input.services.equipment_check
                   THEN config.services.equipment_check ELSE 0)
        subtotal == NumAdd(frequencyAdjustment, FromInt(servicesFee))
        total == NumTimes(subtotal, config.tierMultipliers[input.pricingTier])
    IN Then(<<frequencyAdjustment, subtotal, total>>,
            [basePrice |-> basePrice,
             frequencyAdjustment |-> frequencyAdjustment,
             servicesFee |-> servicesFee,
             tierMultiplier |-> config.tierMultipliers[input.pricingTier],
             subtotal |-> subtotal,
             total |-> RoundToCents(total)])

\* The calculator of a page applied to { ...formData, pricingTier: tier }.
calculatePrice(page, form, tier) ==
    LET input == [pricingTier |-> tier] @@ form
    IN CASE page = "cleaning" -> calculateCleaningPrice(input)
         [] page = "landscaping" -> calculateLandscapingPrice(input)
         [] page = "pool" -> calculatePoolPrice(input)

(***************************************************************************)
(* The quote form of a page and the price of a tier card.  A page keeps    *)
(* formData and selectedCity as state; its handlers replace one field of   *)
(* the form or the city, and a change of the city starts a new query,      *)
(* whose rows are the approved providers of the page's service in that     *)
(* city.  The price of a tier is computed in the render.                   *)
(***************************************************************************)
MaxQuoteRows == 2

InitialFormData(page) ==
    CASE page = "cleaning" ->
             [squareFeet |-> 1500, bedrooms |-> 3, bathrooms |-> 2,
              frequency |-> "bi-weekly", deepClean |-> FALSE,
              addOns |-> [windows |-> FALSE, fridge |-> FALSE, oven |-> FALSE]]
      [] page = "landscaping" ->
             [lotSize |-> 5000, terrain |-> "flat",
              services |-> [mowing |-> TRUE, edging |-> FALSE,
                            trimming |-> FALSE, leaf_removal |-> FALSE,
                            debris |-> FALSE]]
      [] page = "pool" ->
             [poolType |-> "in-ground", poolSize |-> "medium",
              frequency |-> "weekly",
              services |-> [chemical_balancing |-> TRUE,
                            equipment_check |-> FALSE]]

\* The values the inputs of a page offer for a field of its form (of the
\* number inputs, two values each).
FormFieldValues(page, field) ==
    CASE field = "squareFeet" -> {650, 1500}
      [] field = "bedrooms" -> {3, 4}
      [] field = "bathrooms" -> {2}
      [] field = "frequency" ->
             IF page = "cleaning"
             THEN {"one-time", "weekly", "bi-weekly", "monthly"}
             ELSE {"weekly", "bi-weekly"}
      [] field = "deepClean" -> BOOLEAN
      [] field = "addOns" -> [windows : BOOLEAN, fridge : BOOLEAN, oven : BOOLEAN]
      [] field = "lotSize" -> {5000, 7250}
      [] field = "terrain" -> {"flat", "sloped", "very_sloped"}
      [] field = "poolType" -> {"in-ground", "above-ground"}
      [] field = "poolSize" -> {"small", "medium", "large"}
      [] field = "services" ->
             IF page = "landscaping"
             THEN [mowing : BOOLEAN, edging : BOOLEAN, trimming : BOOLEAN,
                   leaf_removal : BOOLEAN, debris : BOOLEAN]
             ELSE [chemical_balancing : BOOLEAN, equipment_check : BOOLEAN]

\* Two records of checkboxes that differ in exactly one checkbox.
OneToggle(a, b) == Cardinality({k \in DOMAIN a : a[k] # b[k]}) = 1

\* The price with the provider's match score applied as a percentage.
QuotePriceByScore(page, tier, matched, form) ==
    IF Len(matched) > 0
    THEN LET price == calculatePrice(page, form, tier)
         IN <<[price EXCEPT !.total =
                   RoundToCents(NumDiv(NumMul(@, matched[1].matchScore), 100))]>>
    ELSE Null

\* The forms a page can hold, and the calculators tabulated over them.
Forms(page) ==
    CASE page = "cleaning" ->
             [squareFeet : FormFieldValues(page, "squareFeet"),
              bedrooms : FormFieldValues(page, "bedrooms"),
              bathrooms : FormFieldValues(page, "bathrooms"),
              frequency : FormFieldValues(page, "frequency"),
              deepClean : FormFieldValues(page, "deepClean"),
              addOns : FormFieldValues(page, "addOns")]
      [] page = "landscaping" ->
             [lotSize : FormFieldValues(page, "lotSize"),
              terrain : FormFieldValues(page, "terrain"),
              services : FormFieldValues(page, "services")]
      [] page = "pool" ->
             [poolType : FormFieldValues(page, "poolType"),
              poolSize : FormFieldValues(page, "poolSize"),
              frequency : FormFieldValues(page, "frequency"),
              services : FormFieldValues(page, "services")]

PriceInputs ==
    UNION {[page : {page}, form : Forms(page), tier : PricingTiers] :
               page \in ServiceTypes}

PriceTable ==
    [k \in PriceInputs |-> calculatePrice(k.page, k.form, k.tier)] @@ <<>>

\* budgetPrice, standardPrice and premiumPrice: the price of a tier, given
\* the providers getTopProviders returned for it; Null when there is none.
QuotePrice(page, tier, matched, form) ==
    IF Len(matched) > 0
    THEN <<PriceTable[[page |-> page, form |-> form, tier |-> tier]]>>
    ELSE Null

\* The rows the query of the page returns for the selected city.
QueryRows ==
    {p \in ProviderPool :
        /\ serviceType \in p.services
        /\ city \in p.cities
        /\ p.status = "approved"}

InitQuote ==
    /\ providers = <<>>
    /\ serviceType \in ServiceTypes
    /\ city = "Gilbert"
    /\ call = "none"
    /\ limit = DefaultLimit
    /\ result = <<>>
    /\ heap = NoHeap
    /\ frames = NoFrames
    /\ formData = InitialFormData(serviceType)
    /\ providerTable = NoTable
    /\ jobs = NoJobs
    /\ stripe = NoStripe
    /\ requests = NoRequests
    /\ view = NoView

\* The query delivers one more row.
FetchRow(p) ==
    /\ Len(providers) < MaxQuoteRows
    /\ providers' = Append(providers, p)
    /\ UNCHANGED <<serviceType, city, call, limit, result, heap, frames,
                   platform>>

\* setFormData({ ...formData, [field]: value }); a checkbox changes one
\* entry of addOns or services.
SetFormData(field, value) ==
    /\ value # formData[field]
    /\ field \in {"addOns", "services"} => OneToggle(formData[field], value)
    /\ formData' = [formData EXCEPT ![field] = value]
    /\ UNCHANGED <<providers, serviceType, city, call, limit, result, heap,
                   frames, providerTable, jobs, stripe, requests, view>>

\* setSelectedCity(value): the query key changes and the rows of the new
\* query are not there yet.
SetSelectedCity(value) ==
    /\ value # city
    /\ city' = value
    /\ providers' = <<>>
    /\ UNCHANGED <<serviceType, call, limit, result, heap, frames, platform>>

NextQuote ==
    \/ \E p \in QueryRows : FetchRow(p)
    \/ \E field \in DOMAIN formData :
           \E value \in FormFieldValues(serviceType, field) :
               SetFormData(field, value)
    \/ \E value \in Cities : SetSelectedCity(value)

SpecQuote == InitQuote /\ [][NextQuote]_vars

(***************************************************************************)
(* The providers table and its access rules.  Clients (the pages) send     *)
(* statements to the database as the signed-in user, and row level         *)
(* security decides for each statement which rows it may touch; the seed   *)
(* function uses the service role, which the policies do not bind.         *)
(* providerTable holds the rows and, of the last statement, the user it    *)
(* ran as (auth.uid(), Null for the service role) and the handler that     *)
(* sent it.                                                                *)
(***************************************************************************)
MaxPlaces == 1

Users == {"admin", "pat", "casey"}
ProviderUsers == {"pat"}
PlaceIds == <<"place1", "place2", "place3">>
Places == {PlaceIds[n] : n \in 1..MaxPlaces}

\* user_roles
UserRoles ==
    [u \in Users |->
        CASE u = "admin" -> {"admin"}
          [] u \in ProviderUsers -> {"provider"}
          [] OTHER -> {"customer"}]

has_role(user_id, role) == role \in UserRoles[user_id]

\* CREATE POLICY ... ON public.providers
ProvidersSelectPolicy(uid, row) ==
    \/ row.status = "approved"
    \/ row.user_id = <<uid>>
    \/ has_role(uid, "admin")

ProvidersInsertPolicy(uid, row) == row.user_id = <<uid>>

\* "Providers can update own profile" and "Admins can update all
\* providers": the policies name the rows, not the columns.
ProvidersUpdatePolicy(uid, row, column) ==
    \/ row.user_id = <<uid>>
    \/ has_role(uid, "admin")

\* No policy on the table is FOR DELETE or FOR ALL.
ProvidersDeletePolicy(uid, row) == FALSE

Rows == providerTable.rows

Statement(rows, uid, handler) ==
    [rows |-> rows, uid |-> uid, handler |-> handler]

InitProviders ==
    /\ providers = <<>>
    /\ serviceType = "cleaning"
    /\ city = "Gilbert"
    /\ call = "none"
    /\ limit = DefaultLimit
    /\ result = <<>>
    /\ heap = NoHeap
    /\ frames = NoFrames
    /\ formData = NoForm
    /\ providerTable = Statement(<<>>, Null, "none")
    /\ jobs = NoJobs
    /\ stripe = NoStripe
    /\ requests = NoRequests
    /\ view = NoView

TableOnly ==
    UNCHANGED <<providers, serviceType, city, call, limit, result, heap,
                frames, formData, jobs, stripe, requests, view>>

\* Provider registration: the new user inserts a row of their own with
\* status 'pending'; rating and total_reviews take the column defaults.
Register(u, tier) ==
    /\ u \in ProviderUsers
    /\ u \notin DOMAIN Rows
    /\ LET row == Provider(u, "Registered", {"cleaning"}, {"Gilbert"}, tier,
                           5, FALSE, <<0>>, <<0>>, "pending")
                      @@ [user_id |-> <<u>>, place_id |-> Null]
       IN /\ ProvidersInsertPolicy(u, row)
          /\ providerTable' = Statement((u :> row) @@ Rows, <<u>>, "register")
    /\ TableOnly

\* supabase.from("providers").update({ [column]: value }).eq("id", id) sent
\* by a signed-in user: the row changes when a policy FOR UPDATE admits it
\* and the statement changes no row otherwise.
UpdateRow(u, id, column, value, handler) ==
    /\ id \in DOMAIN Rows
    /\ providerTable' =
           Statement(IF ProvidersUpdatePolicy(u, Rows[id], column)
                     THEN [Rows EXCEPT ![id][column] = value] ELSE Rows,
                     <<u>>, handler)
    /\ TableOnly

\* The administrator pages show their buttons to users with the admin role
\* (checkAdminAuth) and by the status of the row.
handleApprove(u, id) ==
    /\ has_role(u, "admin")
    /\ id \in DOMAIN Rows /\ Rows[id].status = "pending"
    /\ UpdateRow(u, id, "status", "approved", "handleApprove")

handleSuspend(u, id) ==
    /\ has_role(u, "admin")
    /\ id \in DOMAIN Rows /\ Rows[id].status = "approved"
    /\ UpdateRow(u, id, "status", "suspended", "handleSuspend")

handleReactivate(u, id) ==
    /\ has_role(u, "admin")
    /\ id \in DOMAIN Rows /\ Rows[id].status = "suspended"
    /\ UpdateRow(u, id, "status", "approved", "handleReactivate")

\* Reject deletes the row of a pending provider; the statement removes the
\* rows a policy FOR DELETE admits.
handleReject(u, id) ==
    /\ has_role(u, "admin")
    /\ id \in DOMAIN Rows /\ Rows[id].status = "pending"
    /\ providerTable' =
           Statement([k \in {k \in DOMAIN Rows :
                                k # id \/ ~ProvidersDeletePolicy(u, Rows[k])}
                         |-> Rows[k]],
                     <<u>>, "handleReject")
    /\ TableOnly

\* An update of a providers row sent from a signed-in client outside the
\* administrator pages (a profile edit): any column of the row.
UpdateProfile(u, id, column, value) ==
    /\ ~has_role(u, "admin")
    /\ id \in DOMAIN Rows
    /\ value # Rows[id][column]
    /\ UpdateRow(u, id, column, value, "profile")

\* seed-providers, one place of the import, with the service role: a row
\* with the place_id is updated in the listed columns, and a new row is
\* inserted with status 'pending' otherwise.
SeedProvider(place, reviews) ==
    /\ LET existing == {k \in DOMAIN Rows : Rows[k].place_id = <<place>>}
       IN IF existing # {}
          THEN LET id == CHOOSE k \in existing : TRUE
               IN /\ Rows[id].total_reviews # reviews
                  /\ providerTable' =
                         Statement([Rows EXCEPT ![id].total_reviews = reviews],
                                   Null, "seed-providers")
          ELSE providerTable' =
                   Statement((place :>
                                 (Provider(place, "Imported", {"cleaning"},
                                           {"Gilbert"}, "standard", 0, FALSE,
                                           <<450>>, reviews, "pending")
                                      @@ [user_id |-> Null,
                                          place_id |-> <<place>>]))
                                 @@ Rows,
                             Null, "seed-providers")
    /\ TableOnly

\* A quote page sends its query as user u and ranks the rows it is given.
RECURSIVE SeqOfSet(_)
SeqOfSet(S) ==
    IF S = {} THEN <<>>
    ELSE LET x == CHOOSE y \in S : TRUE IN <<x>> \o SeqOfSet(S \ {x})

QuotePageQuery(u) ==
    /\ providers' =
           SeqOfSet({Rows[k] : k \in
               {k \in DOMAIN Rows :
                   /\ ProvidersSelectPolicy(u, Rows[k])
                   /\ serviceType \in Rows[k].services
                   /\ city \in Rows[k].cities
                   /\ Rows[k].status = "approved"}})
    /\ call' = "getTopProviders"
    /\ result' = getTopProviders([serviceType |-> serviceType, city |-> city,
                                  providers |-> providers'], DefaultLimit)
    /\ UNCHANGED <<serviceType, city, limit, heap, frames, platform>>

NextProviders ==
    \/ \E u \in ProviderUsers : \E tier \in {"budget", "standard"} :
           Register(u, tier)
    \/ \E u \in Users : \E id \in DOMAIN Rows : handleApprove(u, id)
    \/ \E u \in Users : \E id \in DOMAIN Rows : handleSuspend(u, id)
    \/ \E u \in Users : \E id \in DOMAIN Rows : handleReactivate(u, id)
    \/ \E u \in Users : \E id \in DOMAIN Rows : handleReject(u, id)
    \/ \E u \in Users : \E id \in DOMAIN Rows :
           \E column \in {"status", "pricing_tier"} :
               \E value \in Statuses \cup {"budget", "standard"} :
                   /\ column = "status" <=> value \in Statuses
                   /\ UpdateProfile(u, id, column, value)
    \/ \E place \in Places : \E reviews \in {<<0>>, <<8>>} :
           SeedProvider(place, reviews)
    \/ \E u \in Users : QuotePageQuery(u)

SpecProviders == InitProviders /\ [][NextProviders]_vars

(***************************************************************************)
(* Booking and payment.  The total of a tier card travels as text from     *)
(* the quote page to the review page, from there with the deposit to the   *)
(* checkout page, and as JSON to create-checkout-session, which stores     *)
(* both amounts in DECIMAL(10,2) columns of the job and charges the        *)
(* deposit through a Stripe checkout session.  Texts of amounts are        *)
(* written in thousandths and stored amounts and charges in hundredths     *)
(* (cents).                                                                *)
(***************************************************************************)
\* Number.prototype.toString and JSON.stringify of a number: the shortest
\* decimal text that parses back to x.  For the amounts of a booking that
\* text has at most three decimals and is given as the count m of
\* thousandths; Null stands for a longer text.
NumberToString(x) ==
    LET m == MathRound(NumMul(x, 1000))
    IN IF RoundToDouble(FromInt(m), 1000) = x THEN <<m>> ELSE Null

\* parseFloat and JSON.parse of the text of m thousandths: the nearest
\* number.
parseFloat(text) == RoundToDouble(FromInt(text[1]), 1000)

\* A number sent to a DECIMAL(10,2) column: the database reads the decimal
\* text and rounds it to two decimals, a half away from zero.  The result
\* is in hundredths.
Decimal102(x) == (NumberToString(x)[1] + 5) \div 10

\* The total and the deposit as the review page sends them to the checkout
\* page: totalAmount = parseFloat(total), depositAmount = totalAmount * 0.5.
BookingReview(total) ==
    LET totalAmount == parseFloat(total)
        depositAmount == NumTimes(totalAmount, Literal(50))
    IN [total |-> NumberToString(totalAmount),
        deposit |-> NumberToString(depositAmount)]

\* The body the checkout page sends: both parameters parsed, then written
\* as JSON and read by the function.
BookingCheckout(params) ==
    [totalAmount |-> parseFloat(NumberToString(parseFloat(params.total))),
     depositAmount |-> parseFloat(NumberToString(parseFloat(params.deposit)))]

\* unit_amount of the checkout session: Math.round(depositAmount * 100).
UnitAmount(depositAmount) == MathRound(NumMul(depositAmount, 100))

\* amount of the completion payment intent, from a job row read from the
\* database: Math.round((total_amount - deposit_amount) * 100).
RemainingAmountCents(job) ==
    MathRound(NumMul(NumSub(FromHundredths(job.total_amount),
                            FromHundredths(job.deposit_amount)), 100))

\* The totals of the tier cards a customer books in the model, as the
\* texts the quote page puts in the address of the review page: 133.45,
\* the budget card of the cleaning page for 650 square feet, monthly, with
\* the oven add-on, and 225.00, the standard card of the initial form.
BookedTotals == {<<133450>>, <<225000>>}

\* The amounts create-checkout-session stores and charges for a booked
\* total, and the remaining amounts complete-job-payment charges for the
\* stored amounts, tabulated.
Checkouts ==
    [total \in BookedTotals |->
        LET body == BookingCheckout(BookingReview(total))
        IN [total_amount |-> Decimal102(body.totalAmount),
            deposit_amount |-> Decimal102(body.depositAmount),
            unit_amount |-> UnitAmount(body.depositAmount)]] @@ <<>>

Remaining ==
    [amounts \in {[total_amount |-> Checkouts[t].total_amount,
                   deposit_amount |-> Checkouts[t].deposit_amount] :
                      t \in BookedTotals} |->
        RemainingAmountCents(amounts)] @@ <<>>

(***************************************************************************)
(* Jobs and their payments (SpecPayments).  One customer books one job     *)
(* with one provider.  jobs is the jobs table; stripe holds the checkout   *)
(* session of the deposit, the payment intents and the number of           *)
(* deliveries of the checkout.session.completed event; requests are the    *)
(* invocations of complete-job-payment, whose awaits let the steps of two  *)
(* invocations and of the other handlers interleave; view is the status    *)
(* of the job as the provider's job page last fetched it, which decides    *)
(* the buttons the page shows.                                             *)
(***************************************************************************)
MaxRequests == 2
MaxDeliveries == 2

Customer == "casey"
AssignedProvider == "pat"
\* Who may call complete-job-payment: anybody, signed in or not.
PaymentCallers == {Null} \cup {<<u>> : u \in {AssignedProvider, Customer}}

\* What stripe.paymentIntents.create can answer for an off-session
\* confirmation: a status, or a card error thrown.
ChargeOutcomes == {"succeeded", "processing", "requires_capture", "card_error"}

IdleRequest == [pc |-> "idle", caller |-> Null, job |-> Null,
                charge |-> Null, response |-> Null]

InitPayments ==
    /\ providers = <<>>
    /\ serviceType = "cleaning"
    /\ city = "Gilbert"
    /\ call = "none"
    /\ limit = DefaultLimit
    /\ result = <<>>
    /\ heap = NoHeap
    /\ frames = NoFrames
    /\ formData = NoForm
    /\ providerTable = NoTable
    /\ jobs = <<>>
    /\ stripe = [session |-> Null, intents |-> <<>>, deliveries |-> 0]
    /\ requests = [r \in 1..MaxRequests |-> IdleRequest]
    /\ view = "none"

PaymentsOnly ==
    UNCHANGED <<providers, serviceType, city, call, limit, result, heap,
                frames, formData, providerTable>>

\* create-checkout-session: the job row is inserted with the amounts of
\* the body and status pending_deposit, and a checkout session for the
\* deposit is created.  (The later update of stripe_checkout_session_id is
\* sent as the customer, for whom the jobs table has no update policy, so
\* it changes no row.)
CreateCheckoutSession(total) ==
    /\ jobs = <<>>
    /\ jobs' = <<[status |-> "pending_deposit",
                  provider |-> AssignedProvider,
                  customer |-> Customer,
                  total_amount |-> Checkouts[total].total_amount,
                  deposit_amount |-> Checkouts[total].deposit_amount,
                  stripe_payment_intent_id |-> Null,
                  completed_date |-> Null]>>
    /\ stripe' = [stripe EXCEPT !.session =
                      <<[unit_amount |-> Checkouts[total].unit_amount,
                         status |-> "open"]>>]
    /\ UNCHANGED <<requests, view>>
    /\ PaymentsOnly

\* The customer pays on the page of the checkout session: Stripe creates
\* the payment intent of the deposit and completes the session.
CustomerPays ==
    /\ stripe.session # Null
    /\ stripe.session[1].status = "open"
    /\ stripe' = [stripe EXCEPT
                      !.session = <<[@[1] EXCEPT !.status = "complete"]>>,
                      !.intents = Append(@, [type |-> "deposit",
                                             amount |-> stripe.session[1].unit_amount,
                                             status |-> "succeeded"])]
    /\ UNCHANGED <<jobs, requests, view>>
    /\ PaymentsOnly

\* stripe-webhook receives checkout.session.completed (Stripe delivers an
\* event at least once, at any time after the session completed): the job
\* of the session's metadata is set to confirmed and the payment intent of
\* the deposit is recorded.
DeliverWebhook ==
    /\ stripe.session # Null
    /\ stripe.session[1].status = "complete"
    /\ stripe.deliveries < MaxDeliveries
    /\ stripe' = [stripe EXCEPT !.deliveries = @ + 1]
    /\ jobs' = [jobs EXCEPT ![1] = [@ EXCEPT
                    !.status = "confirmed",
                    !.stripe_payment_intent_id = <<"pi_deposit">>]]
    /\ UNCHANGED <<requests, view>>
    /\ PaymentsOnly

\* The provider's job page fetches the job.
fetchJobDetail ==
    /\ jobs # <<>>
    /\ view # jobs[1].status
    /\ view' = jobs[1].status
    /\ UNCHANGED <<jobs, stripe, requests>>
    /\ PaymentsOnly

\* handleStatusUpdate(newStatus) of the provider's job pages, called by
\* the button the page shows for the status it fetched: the job is updated
\* by id and fetched again.
handleStatusUpdate(shown, newStatus) ==
    /\ jobs # <<>>
    /\ view = shown
    /\ jobs' = [jobs EXCEPT ![1] = [@ EXCEPT
                    !.status = newStatus,
                    !.completed_date =
                        IF newStatus = "completed" THEN <<"page">> ELSE @]]
    /\ view' = newStatus
    /\ UNCHANGED <<stripe, requests>>
    /\ PaymentsOnly

AcceptJob == handleStatusUpdate("pending_deposit", "confirmed")
DeclineJob == handleStatusUpdate("pending_deposit", "cancelled")
MarkInProgress == handleStatusUpdate("confirmed", "in_progress")
MarkComplete == handleStatusUpdate("in_progress", "completed")

\* The reply of complete-job-payment to an error: 402 for a card error of
\* Stripe, 500 for every other error.
ErrorResponse(status) ==
    [IdleRequest EXCEPT !.pc = "done", !.response = <<status>>]

\* The checks without the check of the status.
FetchJobAnyStatus(r, caller) ==
    /\ requests[r].pc = "idle"
    /\ requests' = [requests EXCEPT ![r] =
           IF \/ caller = Null
              \/ jobs = <<>>
              \/ jobs[1].provider # caller[1]
              \/ jobs[1].stripe_payment_intent_id = Null
           THEN [ErrorResponse(500) EXCEPT !.caller = caller]
           ELSE [pc |-> "create", caller |-> caller, job |-> <<jobs[1]>>,
                 charge |-> Null, response |-> Null]]
    /\ UNCHANGED <<jobs, stripe, view>>
    /\ PaymentsOnly

\* complete-job-payment, up to the creation of the charge: the caller is
\* authenticated, the job is read with its provider, and the caller, the
\* status and the payment intent of the deposit are checked on the row
\* that was read.
FetchJob(r, caller) ==
    /\ requests[r].pc = "idle"
    /\ requests' = [requests EXCEPT ![r] =
           IF \/ caller = Null
              \/ jobs = <<>>
              \/ jobs[1].provider # caller[1]
              \/ jobs[1].status # "in_progress"
              \/ jobs[1].stripe_payment_intent_id = Null
           THEN [ErrorResponse(500) EXCEPT !.caller = caller]
           ELSE [pc |-> "create", caller |-> caller, job |-> <<jobs[1]>>,
                 charge |-> Null, response |-> Null]]
    /\ UNCHANGED <<jobs, stripe, view>>
    /\ PaymentsOnly

\* stripe.paymentIntents.create for the remaining amount of the row that
\* was read, confirmed off session.
CreateIntent(r, outcome) ==
    /\ requests[r].pc = "create"
    /\ stripe' = [stripe EXCEPT !.intents =
                      Append(@, [type |-> "completion",
                                 amount |-> Remaining[[total_amount |-> requests[r].job[1].total_amount,
                                                      deposit_amount |-> requests[r].job[1].deposit_amount]],
                                 status |-> outcome])]
    /\ requests' = [requests EXCEPT ![r] =
           CASE outcome \in {"succeeded", "processing"} ->
                    [@ EXCEPT !.pc = "update", !.charge = <<outcome>>]
             [] outcome = "card_error" ->
                    [@ EXCEPT !.pc = "done", !.charge = <<outcome>>,
                              !.response = <<402>>]
             [] OTHER ->
                    [@ EXCEPT !.pc = "done", !.charge = <<outcome>>,
                              !.response = <<500>>]]
    /\ UNCHANGED <<jobs, view>>
    /\ PaymentsOnly

\* The update that ends complete-job-payment: paid for a charge that
\* succeeded, completed for one that is processing, written by id.
UpdateJob(r) ==
    /\ requests[r].pc = "update"
    /\ jobs' = [jobs EXCEPT ![1] = [@ EXCEPT
                    !.status = IF requests[r].charge = <<"succeeded">>
                               THEN "paid" ELSE "completed",
                    !.completed_date = <<"function">>]]
    /\ requests' = [requests EXCEPT ![r] =
                        [@ EXCEPT !.pc = "done", !.response = <<200>>]]
    /\ UNCHANGED <<stripe, view>>
    /\ PaymentsOnly

NextPayments ==
    \/ \E total \in BookedTotals : CreateCheckoutSession(total)
    \/ CustomerPays
    \/ DeliverWebhook
    \/ fetchJobDetail
    \/ AcceptJob
    \/ DeclineJob
    \/ MarkInProgress
    \/ MarkComplete
    \/ \E r \in 1..MaxRequests : \E caller \in PaymentCallers : FetchJob(r, caller)
    \/ \E r \in 1..MaxRequests : \E outcome \in ChargeOutcomes :
           CreateIntent(r, outcome)
    \/ \E r \in 1..MaxRequests : UpdateJob(r)

SpecPayments == InitPayments /\ [][NextPayments]_vars

(***************************************************************************)
(* Properties of the filter, the ranking and the top-N selection (Spec).   *)
(***************************************************************************)
\* The provider fields of an output record.
Base(r) == [f \in (DOMAIN r) \ {"matchScore", "badges"} |-> r[f]]

\* The three eligibility conditions, stated on a provider row.
Qualifies(p) ==
    p.status = "approved" /\ serviceType \in p.services /\ city \in p.cities

Occurrences(list, v) == Cardinality({i \in 1..Len(list) : list[i] = v})

BaseOccurrences(list, v) == Cardinality({i \in 1..Len(list) : Base(list[i]) = v})

EligibleCount == Cardinality({j \in 1..Len(providers) : Qualifies(providers[j])})

\* C1: no provider whose status is not 'approved' appears in the output of
\* matchProviders or getTopProviders, even when its services contain the
\* requested service and its cities contain the requested city.
C1_UnapprovedNeverMatched ==
    call # "none" =>
        \A j \in 1..Len(providers) :
            providers[j].status # "approved" =>
                \A i \in 1..Len(result) : Base(result[i]) # providers[j]

\* A call has returned providers while the input held a pending or suspended
\* provider offering the requested service in the requested city.
C1_Witness ==
    /\ call # "none"
    /\ result # <<>>
    /\ \E j \in 1..Len(providers) :
           /\ providers[j].status # "approved"
           /\ serviceType \in providers[j].services
           /\ city \in providers[j].cities

\* C2: the output of matchProviders holds exactly one record for each
\* occurrence of an input provider that is approved, offers the service and
\* serves the city, and no record for any other provider; records with the
\* same id are not merged.
C2_ExactlyTheEligible ==
    call = "matchProviders" =>
        /\ Len(result) = EligibleCount
        /\ \A i \in 1..Len(result) :
               \E j \in 1..Len(providers) : providers[j] = Base(result[i])
        /\ \A j \in 1..Len(providers) :
               BaseOccurrences(result, providers[j]) =
                   IF Qualifies(providers[j])
                   THEN Occurrences(providers, providers[j]) ELSE 0

\* matchProviders has returned two records with the same id while the input
\* also held a provider that does not qualify.
C2_Witness ==
    /\ call = "matchProviders"
    /\ \E i, k \in 1..Len(result) : i # k /\ result[i].id = result[k].id
    /\ \E j \in 1..Len(providers) : ~Qualifies(providers[j])

\* C9: the list returned by matchProviders is sorted by matchScore in
\* non-increasing order.
C9_SortedByScore ==
    call = "matchProviders" =>
        \A i \in 1..(Len(result) - 1) :
            result[i].matchScore >= result[i + 1].matchScore

\* Input scores in the order 100, 30, 65 have come out as 100, 65, 30.
C9_Witness ==
    /\ call = "matchProviders"
    /\ Len(providers) = 3
    /\ Len(result) = 3
    /\ <<providers[1].id, providers[2].id, providers[3].id>> = <<"a", "b", "d">>
    /\ <<result[1].matchScore, result[2].matchScore, result[3].matchScore>>
           = <<100, 65, 30>>
    /\ <<result[1].id, result[2].id, result[3].id>> = <<"a", "d", "b">>

\* C10: for every N >= 0, getTopProviders(input, N) returns exactly the
\* first min(N, k) elements of matchProviders(input) in the same order, k
\* being the number of eligible providers.
C10_TopNIsPrefix ==
    (call = "getTopProviders" /\ limit >= 0) =>
        LET ranked == matchProviders(Input)
            n == IF limit < EligibleCount THEN limit ELSE EligibleCount
        IN /\ Len(result) = n
           /\ \A i \in 1..n : result[i] = ranked[i]

\* getTopProviders was asked for more providers than are eligible and has
\* returned the full ranked list of two or more.
C10_Witness ==
    /\ call = "getTopProviders"
    /\ limit > EligibleCount
    /\ EligibleCount >= 2
    /\ result = matchProviders(Input)

(***************************************************************************)
(* Properties of the score of one provider (SpecScore).                    *)
(***************************************************************************)
\* A provider whose numeric fields are in their documented ranges.
ValidProvider(p) ==
    /\ p.rating = Null \/ (p.rating[1] >= 0 /\ p.rating[1] <= 500)
    /\ p.years_experience >= 0
    /\ p.total_reviews = Null \/ p.total_reviews[1] >= 0

\* p and q are equal in every field except f.
DifferOnlyIn(p, q, f) ==
    /\ p[f] # q[f]
    /\ \A g \in (DOMAIN p) \ {f} : p[g] = q[g]

\* b is a higher value of a nullable number than a (null is below any value).
HigherNullable(a, b) ==
    \/ a = Null /\ b # Null /\ b[1] >= 0
    \/ a # Null /\ b # Null /\ a[1] < b[1]

\* q is p with one of the four scored fields raised.
Improves(p, q) ==
    \/ DifferOnlyIn(p, q, "rating") /\ HigherNullable(p.rating, q.rating)
    \/ DifferOnlyIn(p, q, "years_experience")
           /\ p.years_experience < q.years_experience
    \/ DifferOnlyIn(p, q, "total_reviews")
           /\ HigherNullable(p.total_reviews, q.total_reviews)
    \/ DifferOnlyIn(p, q, "insurance_verified")
           /\ ~p.insurance_verified /\ q.insurance_verified

\* C3: for every valid provider in the output of matchProviders,
\* matchScore is an integer with 0 <= matchScore <= 100.
C3_ScoreWithinBounds ==
    call = "matchProviders" =>
        \A i \in 1..Len(result) :
            ValidProvider(Base(result[i])) => result[i].matchScore \in 0..100

\* A provider beyond both saturation points (12 years, 210 reviews) with
\* the top rating and insurance has been scored 100.
C3_Witness ==
    /\ call = "matchProviders"
    /\ \E i \in 1..Len(result) :
           /\ result[i].rating = <<500>>
           /\ result[i].years_experience = 12
           /\ result[i].total_reviews = <<210>>
           /\ result[i].insurance_verified
           /\ result[i].matchScore = 100

\* The sum of the five components in twentieths of a point, over the reals:
\* 30 + rating * 5 + min(years, 10) * 2 + min(reviews, 50) * 3/10 + 10.
ReferenceTwentieths(p) ==
    LET rating == IF p.rating = Null THEN 0 ELSE p.rating[1]
        years == IF p.years_experience < 10 THEN p.years_experience ELSE 10
        reviews == IF p.total_reviews = Null THEN 0
                   ELSE IF p.total_reviews[1] < 50 THEN p.total_reviews[1] ELSE 50
    IN 600 + rating + 40 * years + 6 * reviews
           + (IF p.insurance_verified THEN 200 ELSE 0)

\* That sum rounded to the nearest integer, one half rounding up.
ReferenceScore(p) == (ReferenceTwentieths(p) + 10) \div 20

\* C4: for every eligible provider, matchScore equals the reference value
\* round(30 + (rating_or_0 / 5) * 25 + min(years_experience / 10, 1) * 20
\* + min(total_reviews_or_0 / 50, 1) * 15 + (10 if insured else 0)), a sum
\* whose fractional part is exactly one half rounding up.
C4_ScoreEqualsReference ==
    call = "matchProviders" =>
        \A i \in 1..Len(result) :
            result[i].matchScore = ReferenceScore(Base(result[i]))

\* C5: of two eligible providers equal in every field except one, the one
\* with the higher rating, more years of experience, more reviews or
\* verified insurance has a matchScore at least as high; a null rating or
\* review count is below any non-negative value.
C5_ScoreMonotone ==
    call = "matchProviders" =>
        \A i, j \in 1..Len(result) :
            Improves(Base(result[i]), Base(result[j])) =>
                result[i].matchScore <= result[j].matchScore

\* Two providers that differ in one scored field have been scored, the
\* first with a null rating or review count, and the second scored higher.
C5_Witness ==
    /\ call = "matchProviders"
    /\ \E i, j \in 1..Len(result) :
           /\ Improves(Base(result[i]), Base(result[j]))
           /\ result[i].rating = Null \/ result[i].total_reviews = Null
           /\ result[i].matchScore < result[j].matchScore

\* The experience and review contributions, tabulated over the field values.
ExpPoints == [y \in YearsValues |-> ExpScore(FromInt(y))] @@ <<>>
ReviewPoints ==
    [n \in ReviewValues |-> ReviewScore(FromInt(OrZero(n)))] @@ <<>>
TwentyPoints == FromInt(20)
FifteenPoints == FromInt(15)

\* C6: the experience contribution is exactly 20 for every
\* years_experience >= 10 and the review contribution exactly 15 for every
\* total_reviews >= 50, so two eligible providers that differ only in
\* years_experience (both >= 10) or only in total_reviews (both >= 50)
\* receive the same matchScore.
C6_Saturation ==
    call = "matchProviders" =>
        /\ \A i \in 1..Len(result) :
               /\ result[i].years_experience >= 10 =>
                      ExpPoints[result[i].years_experience] = TwentyPoints
               /\ (result[i].total_reviews # Null /\ result[i].total_reviews[1] >= 50) =>
                      ReviewPoints[result[i].total_reviews] = FifteenPoints
        /\ \A i, j \in 1..Len(result) :
               LET p == Base(result[i])
                   q == Base(result[j])
               IN (\/ /\ DifferOnlyIn(p, q, "years_experience")
                      /\ p.years_experience >= 10 /\ q.years_experience >= 10
                   \/ /\ DifferOnlyIn(p, q, "total_reviews")
                      /\ p.total_reviews # Null /\ q.total_reviews # Null
                      /\ p.total_reviews[1] >= 50 /\ q.total_reviews[1] >= 50)
                  => result[i].matchScore = result[j].matchScore

\* Two providers that differ only in years_experience, 10 and 12, have both
\* been scored.
C6_Witness ==
    /\ call = "matchProviders"
    /\ \E i, j \in 1..Len(result) :
           /\ DifferOnlyIn(Base(result[i]), Base(result[j]), "years_experience")
           /\ result[i].years_experience = 10
           /\ result[j].years_experience = 12

\* C7: an eligible provider with rating null, total_reviews null,
\* years_experience 0 and insurance_verified false receives matchScore
\* exactly 30, and its badges are exactly <<"Best Value">> when its
\* pricing_tier is budget and empty otherwise.
C7_MissingDataDefaults ==
    call = "matchProviders" =>
        \A i \in 1..Len(result) :
            (/\ result[i].rating = Null
             /\ result[i].total_reviews = Null
             /\ result[i].years_experience = 0
             /\ ~result[i].insurance_verified)
            => /\ result[i].matchScore = 30
               /\ result[i].badges =
                      IF result[i].pricing_tier = "budget"
                      THEN <<"Best Value">> ELSE <<>>

\* Such a provider has been scored in the budget tier and in another tier.
C7_Witness ==
    /\ call = "matchProviders"
    /\ \E i, j \in 1..Len(result) :
           /\ DifferOnlyIn(Base(result[i]), Base(result[j]), "pricing_tier")
           /\ result[i].pricing_tier = "budget"
           /\ result[i].rating = Null
           /\ result[i].total_reviews = Null
           /\ result[i].years_experience = 0
           /\ ~result[i].insurance_verified

\* p and q differ only in one nullable number, null in p and 0 in q.
NullVersusZero(p, q) ==
    \/ DifferOnlyIn(p, q, "rating") /\ p.rating = Null /\ q.rating = <<0>>
    \/ DifferOnlyIn(p, q, "total_reviews")
           /\ p.total_reviews = Null /\ q.total_reviews = <<0>>

\* C8: a missing optional numeric field is treated as zero and never
\* excludes the record: an eligible provider with rating null gets the same
\* matchScore and badges as the same provider with rating 0, likewise
\* total_reviews null versus 0, and in both cases the provider is present in
\* the output.
C8_NullTreatedAsZero ==
    call = "matchProviders" =>
        /\ \A j \in 1..Len(providers) :
               (/\ Qualifies(providers[j])
                /\ providers[j].rating = Null \/ providers[j].total_reviews = Null)
               => \E i \in 1..Len(result) : Base(result[i]) = providers[j]
        /\ \A j, k \in 1..Len(providers) :
               (/\ Qualifies(providers[j])
                /\ Qualifies(providers[k])
                /\ NullVersusZero(providers[j], providers[k]))
               => \E i, m \in 1..Len(result) :
                      /\ Base(result[i]) = providers[j]
                      /\ Base(result[m]) = providers[k]
                      /\ result[i].matchScore = result[m].matchScore
                      /\ result[i].badges = result[m].badges

\* A provider with a null rating and its copy with rating 0 were both in the
\* input of a call that has returned.
C8_Witness ==
    /\ call = "matchProviders"
    /\ \E j, k \in 1..Len(providers) :
           /\ DifferOnlyIn(providers[j], providers[k], "rating")
           /\ providers[j].rating = Null
           /\ providers[k].rating = <<0>>
    /\ Len(result) = Len(providers)

(***************************************************************************)
(* Properties of the badges (SpecScore for single providers, Spec for      *)
(* lists).                                                                 *)
(***************************************************************************)
\* The three badge rules stated on the column values: rating in hundredths
\* and the review count, a null value qualifying for nothing.
ExpectedBadges(p) ==
    (IF p.rating # Null /\ p.rating[1] >= 480 THEN <<"Top Rated">> ELSE <<>>)
    \o (IF p.pricing_tier = "budget" THEN <<"Best Value">> ELSE <<>>)
    \o (IF /\ p.total_reviews # Null /\ p.total_reviews[1] >= 25
           /\ p.rating # Null /\ p.rating[1] >= 450
        THEN <<"Most Reliable">> ELSE <<>>)

\* C11: for every matched provider the badges list is exactly, in this
\* order, "Top Rated" iff rating is non-null and >= 4.8, "Best Value" iff
\* pricing_tier is budget, "Most Reliable" iff total_reviews is non-null and
\* >= 25 and rating is non-null and >= 4.5; the thresholds are inclusive and
\* no other badge appears.
C11_BadgesExact ==
    call = "matchProviders" =>
        \A i \in 1..Len(result) :
            /\ result[i].badges = ExpectedBadges(Base(result[i]))
            /\ \A k \in 1..Len(result[i].badges) :
                   result[i].badges[k] \in {"Top Rated", "Best Value", "Most Reliable"}

\* A non-budget provider with rating 4.50 and 25 reviews has received
\* "Most Reliable" alone, and its copy with rating 4.80 "Top Rated" and
\* "Most Reliable".
C11_Witness ==
    /\ call = "matchProviders"
    /\ \E i, j \in 1..Len(result) :
           /\ DifferOnlyIn(Base(result[i]), Base(result[j]), "rating")
           /\ result[i].rating = <<450>>
           /\ result[i].total_reviews = <<25>>
           /\ result[i].badges = <<"Most Reliable">>
           /\ result[j].rating = <<480>>
           /\ result[j].badges = <<"Top Rated", "Most Reliable">>

\* The request of the current call with the provider list replaced.
InputWith(list) == [serviceType |-> serviceType, city |-> city, providers |-> list]

\* C12: the matchScore and badges of a provider in the output of
\* matchProviders are those it receives when it is the only provider in the
\* call, whatever other providers are in the list.
C12_BadgeIndependence ==
    call = "matchProviders" =>
        \A i \in 1..Len(result) :
            matchProviders(InputWith(<<Base(result[i])>>)) = <<result[i]>>

\* matchProviders has returned two or more providers with different badges,
\* the second of them with at least one badge.
C12_Witness ==
    /\ call = "matchProviders"
    /\ Len(result) >= 2
    /\ result[2].badges # <<>>
    /\ result[1].badges # result[2].badges

\* C13: badges never affect matchScore: two eligible providers with the same
\* rating, years_experience, total_reviews and insurance_verified receive
\* the same matchScore, whatever their pricing_tier and badges.
C13_BadgesNeverAffectScore ==
    call = "matchProviders" =>
        \A i, j \in 1..Len(result) :
            (\A f \in ScoredFields \ {"pricing_tier"} : result[i][f] = result[j][f])
            => result[i].matchScore = result[j].matchScore

\* Two providers that differ only in pricing_tier have been scored, the
\* budget one with "Best Value" and the other with different badges.
C13_Witness ==
    /\ call = "matchProviders"
    /\ \E i, j \in 1..Len(result) :
           /\ DifferOnlyIn(Base(result[i]), Base(result[j]), "pricing_tier")
           /\ result[i].pricing_tier = "budget"
           /\ result[i].badges # result[j].badges
           /\ result[i].matchScore = result[j].matchScore

\* C14: when the provider list is empty or holds no eligible provider,
\* matchProviders and getTopProviders (for any N) return the empty list.
C14_EmptyResult ==
    (call # "none" /\ EligibleCount = 0) => result = <<>>

\* getTopProviders(input, 1) has returned the empty list for a list of
\* providers none of which is eligible.
C14_Witness ==
    /\ call = "getTopProviders"
    /\ limit = 1
    /\ providers # <<>>
    /\ EligibleCount = 0
    /\ result = <<>>

(***************************************************************************)
(* Properties of the quote pages and of the city points (Spec).            *)
(***************************************************************************)
\* p is a fetched row of the given tier that is eligible on the page.
EligibleInTier(p, page, tier) ==
    /\ p.pricing_tier = tier
    /\ p.status = "approved" /\ page \in p.services /\ city \in p.cities

UniqueIds ==
    \A j, k \in 1..Len(providers) : providers[j].id = providers[k].id => j = k

\* C18: on each quote page the provider shown under a tier card has that
\* tier and is eligible for the page's service and the selected city, so the
\* displayed offers come from different tiers and, when ids are unique, are
\* distinct providers; each has the maximum matchScore among the eligible
\* providers of its tier, and a card is shown exactly when its tier has one.
C18_OneOfferPerTier ==
    \A page \in ServiceTypes :
        LET cards == [tier \in PricingTiers |-> QuoteCard(page, tier)] @@ <<>>
        IN \A tier \in PricingTiers :
            /\ Len(cards[tier]) <= 1
            /\ cards[tier] = <<>> <=>
                   ~\E j \in 1..Len(providers) :
                        EligibleInTier(providers[j], page, tier)
            /\ cards[tier] # <<>> =>
                   /\ EligibleInTier(Base(cards[tier][1]), page, tier)
                   /\ \E j \in 1..Len(providers) :
                          providers[j] = Base(cards[tier][1])
                   /\ \A j \in 1..Len(providers) :
                          EligibleInTier(providers[j], page, tier) =>
                              MapCallback(providers[j]).matchScore
                                  <= cards[tier][1].matchScore
                   /\ \A other \in PricingTiers \ {tier} :
                          cards[other] # <<>> =>
                              /\ cards[other][1].pricing_tier # tier
                              /\ UniqueIds =>
                                     cards[other][1].id # cards[tier][1].id

\* The cleaning page shows a standard and a premium offer, and the standard
\* offer is not the first standard row fetched but a later one that scores
\* higher.
C18_Witness ==
    /\ QuoteCard("cleaning", "standard") # <<>>
    /\ QuoteCard("cleaning", "premium") # <<>>
    /\ \E j \in 1..Len(providers) :
           /\ EligibleInTier(providers[j], "cleaning", "standard")
           /\ \A k \in 1..(j - 1) : providers[k].pricing_tier # "standard"
           /\ MapCallback(providers[j]).matchScore
                  < QuoteCard("cleaning", "standard")[1].matchScore

\* C20: every provider in the output of matchProviders has matchScore >= 30,
\* and the score does not vary with the request or with the cities served:
\* the provider gets the same matchScore under every service type and city
\* it is eligible for, and when it serves the requested city alone.
C20_CityPointsConstant ==
    call = "matchProviders" =>
        \A i \in 1..Len(result) :
            /\ result[i].matchScore >= 30
            /\ \A s \in ServiceTypes : \A c \in Cities :
                   (s \in result[i].services /\ c \in result[i].cities) =>
                       matchProviders([serviceType |-> s, city |-> c,
                                       providers |-> <<Base(result[i])>>])[1].matchScore
                           = result[i].matchScore
            /\ matchProviders(InputWith(
                   <<[Base(result[i]) EXCEPT !.cities = {city}]>>))[1].matchScore
                   = result[i].matchScore

\* matchProviders has returned a provider that serves two cities and offers
\* two services, and a provider that scores exactly 30.
C20_Witness ==
    /\ call = "matchProviders"
    /\ \E i, j \in 1..Len(result) :
           /\ Cardinality(result[i].cities) >= 2
           /\ Cardinality(result[i].services) >= 2
           /\ result[j].matchScore = 30

(***************************************************************************)
(* Properties of calls that run step by step on a shared heap              *)
(* (SpecCallers).                                                          *)
(***************************************************************************)
\* The value of an object: its fields, the badges array read through.
ObjectValue(h, a) ==
    IF "badges" \in DOMAIN h[a].val
    THEN [h[a].val EXCEPT !.badges = h[h[a].val.badges].val]
    ELSE h[a].val

\* The value of an array of objects.
ArrayValue(h, a) == [i \in 1..Len(h[a].val) |-> ObjectValue(h, h[a].val[i])]

\* The cells caller c built as its input: the providers array and its
\* elements.
InputCells(c) == {<<c, n>> : n \in 1..(Len(frames[c].given.providers) + 1)}

\* The input of caller c is as the caller built it: the array has the same
\* elements in the same order and every element the same fields and values.
InputIntact(c) ==
    /\ heap[<<c, 1>>] =
           ArrayCell([i \in 1..Len(frames[c].given.providers) |-> <<c, i + 1>>])
    /\ \A i \in 1..Len(frames[c].given.providers) :
           heap[<<c, i + 1>>] = ObjectCell(frames[c].given.providers[i])

\* What the call of caller c returns when no other call runs.
Alone(c) ==
    IF frames[c].fn = "matchProviders"
    THEN matchProviders(frames[c].given)
    ELSE getTopProviders(frames[c].given, frames[c].limit)

\* C15: matchProviders and getTopProviders leave their input unchanged: at
\* every step of a call the input list has the same length and the same
\* elements in the same order, every input record the same field values and
\* no matchScore or badges field; the array that is sorted in place is a
\* newly allocated one and holds newly allocated records.
C15_InputUnchanged ==
    \A c \in Callers :
        /\ InputIntact(c)
        /\ \A i \in 1..Len(frames[c].given.providers) :
               DOMAIN heap[<<c, i + 1>>].val \cap {"matchScore", "badges"} = {}
        /\ frames[c].scoredProviders # Null =>
               /\ frames[c].scoredProviders \notin InputCells(c)
               /\ \A k \in 1..Len(heap[frames[c].scoredProviders].val) :
                      heap[frames[c].scoredProviders].val[k] \notin InputCells(c)

\* A call of matchProviders has returned three providers in an order other
\* than the order of its input.
C15_Witness ==
    \E c \in Callers :
        /\ frames[c].pc = "done"
        /\ frames[c].fn = "matchProviders"
        /\ Len(heap[frames[c].returned].val) = 3
        /\ \E i \in 1..3 :
               Base(ArrayValue(heap, frames[c].returned)[i])
                   # frames[c].given.providers[i]

\* C16: two calls with equal arguments (same serviceType, city and provider
\* list in the same order, same function and limit) return equal outputs:
\* the same providers in the same order with the same matchScore and
\* badges, whatever ran before or between their steps.
C16_Deterministic ==
    \A c, d \in Callers :
        (/\ frames[c].pc = "done" /\ frames[d].pc = "done"
         /\ frames[c].fn = frames[d].fn
         /\ frames[c].limit = frames[d].limit
         /\ frames[c].given = frames[d].given)
        => ArrayValue(heap, frames[c].returned) = ArrayValue(heap, frames[d].returned)

\* Two callers have called matchProviders with equal inputs of two or more
\* eligible providers and both calls have returned.
C16_Witness ==
    \E c, d \in Callers :
        /\ c # d
        /\ frames[c].pc = "done" /\ frames[d].pc = "done"
        /\ frames[c].fn = "matchProviders" /\ frames[d].fn = "matchProviders"
        /\ frames[c].given = frames[d].given
        /\ Len(heap[frames[c].returned].val) >= 2

\* C17: with the steps of several callers interleaved in any order on
\* disjoint inputs, each caller obtains the result it would obtain running
\* alone (and its ranked list before the slice is the one it would have
\* alone), no caller's input is changed, and no cell a call writes is
\* shared: a call allocates in its own cells and the only cell of the module
\* is the weights table.
C17_CallersIndependent ==
    /\ \A a \in DOMAIN heap : a[1] = 0 => a = ConfigAddr
    /\ heap[ConfigAddr].val \in WeightConfigurations
    /\ \A c \in Callers :
           /\ InputIntact(c)
           /\ \A a \in {frames[c].eligibleProviders, frames[c].scoredProviders,
                        frames[c].matched, frames[c].returned} \ {Null} : a[1] = c
           /\ frames[c].pc = "slice" =>
                  ArrayValue(heap, frames[c].matched) = matchProviders(frames[c].given)
           /\ frames[c].pc = "done" =>
                  ArrayValue(heap, frames[c].returned) = Alone(c)

\* Two callers with different inputs are both in the middle of a call: one
\* has ranked two or more providers and is about to slice, the other has
\* filtered or scored and not yet sorted.
C17_Witness ==
    \E c, d \in Callers :
        /\ frames[c].given # frames[d].given
        /\ frames[c].pc = "slice"
        /\ Len(heap[frames[c].matched].val) >= 2
        /\ frames[d].pc \in {"map", "sort"}
        /\ heap[frames[d].eligibleProviders].val # <<>>

\* The score of provider p under the weights w (in hundredths, so that a
\* weight is the maximum of its component in points): the sum
\* w.distance + rating / 5 * w.rating + min(years / 10, 1) * w.experience
\* + min(reviews / 50, 1) * w.reviews + (w.pricingTier if insured), the
\* fifth weight of the table being the insurance points, rounded half up.
ConfiguredScore(w, p) ==
    LET rating == IF p.rating = Null THEN 0 ELSE p.rating[1]
        years == IF p.years_experience < 10 THEN p.years_experience ELSE 10
        reviews == IF p.total_reviews = Null THEN 0
                   ELSE IF p.total_reviews[1] < 50 THEN p.total_reviews[1] ELSE 50
        fiveHundredths ==
            500 * w.distance + rating * w.rating + 50 * years * w.experience
                + 10 * reviews * w.reviews
                + (IF p.insurance_verified THEN 500 * w.pricingTier ELSE 0)
    IN (2 * fiveHundredths + 500) \div 1000

\* C19: the maximum points of the components are taken from the central
\* MATCHING_CONFIG.weights: for any weights configuration every matchScore
\* is the score under the configured weights, each component's maximum
\* being 100 times its weight.
C19_WeightsFromConfig ==
    \A c \in Callers :
        frames[c].pc = "done" =>
            \A i \in 1..Len(heap[frames[c].returned].val) :
                ArrayValue(heap, frames[c].returned)[i].matchScore =
                    ConfiguredScore(heap[frames[c].weights].val,
                                    Base(ArrayValue(heap, frames[c].returned)[i]))

(***************************************************************************)
(* Ties and the tier partition (Spec).                                     *)
(***************************************************************************)
\* The records of a list that have a given matchScore, in list order.
WithScore(list, score) == SelectSeq(list, LAMBDA r : r.matchScore = score)

\* C23: providers with equal matchScore appear in the output of
\* matchProviders in the relative order they have in the input list: for
\* every score, the output records with that score are the eligible input
\* providers with that score in input order, whatever their ratings, review
\* counts and ids.
C23_TiesKeepInputOrder ==
    call = "matchProviders" =>
        LET eligible == SelectSeq(providers, Qualifies)
            scored == [i \in 1..Len(eligible) |-> MapCallback(eligible[i])]
        IN \A i \in 1..Len(result) :
               WithScore(result, result[i].matchScore)
                   = WithScore(scored, result[i].matchScore)

\* matchProviders has returned two providers with the same score, the first
\* of them with the lower rating and the greater id.
C23_Witness ==
    /\ call = "matchProviders"
    /\ \E i \in 1..(Len(result) - 1) :
           /\ result[i].matchScore = result[i + 1].matchScore
           /\ result[i].id = "e" /\ result[i + 1].id = "d"
           /\ result[i].rating = Null /\ result[i + 1].rating = <<500>>

\* The first record of a list that has the given tier, as a list of at most
\* one record.
FirstOfTier(list, tier) ==
    LET kept == SelectSeq(list, LAMBDA r : r.pricing_tier = tier)
    IN IF kept = <<>> THEN <<>> ELSE <<kept[1]>>

\* C26: on every page and for every tier, getTopProviders with N = 1 on the
\* rows of the tier returns the first provider of that tier in the ranking
\* matchProviders gives for all rows, and returns nothing exactly when that
\* ranking has no provider of the tier; this includes tiers in which
\* several providers have the same matchScore.
C26_TierPartitionCommutes ==
    \A page \in ServiceTypes :
        LET whole == matchProviders([serviceType |-> page, city |-> city,
                                     providers |-> providers]) @@ <<>>
        IN \A tier \in PricingTiers :
               QuoteCard(page, tier) = FirstOfTier(whole, tier)

\* Two different standard providers tie for the best score of their tier
\* on the cleaning page, and the card shows the one fetched first although
\* its rating is the lower one.
C26_Witness ==
    /\ QuoteCard("cleaning", "standard") # <<>>
    /\ QuoteCard("cleaning", "standard")[1].id = "e"
    /\ \E j, k \in 1..Len(providers) :
           /\ j < k
           /\ providers[j].id = "e" /\ providers[k].id = "d"
           /\ EligibleInTier(providers[k], "cleaning", "standard")
           /\ MapCallback(providers[k]).matchScore
                  = QuoteCard("cleaning", "standard")[1].matchScore

(***************************************************************************)
(* Properties of the prices on the quote pages (SpecQuote).                *)
(***************************************************************************)
\* The providers a page passes to the price of a tier, and that price.
PageMatched(tier) == QuoteCard(serviceType, tier)

PagePrice(tier) == QuotePrice(serviceType, tier, PageMatched(tier), formData)

\* C21: the price shown for a tier is the same whichever provider was
\* matched for the tier (any row of the pool with any score and badges in
\* its place gives the same price for the same form and tier), and a
\* tier's price is computed (not null) exactly when getTopProviders
\* returned at least one provider for the tier.
C21_PriceIndependentOfProvider ==
    \A tier \in PricingTiers :
        /\ PagePrice(tier) # Null <=> Len(PageMatched(tier)) >= 1
        /\ PagePrice(tier) # Null =>
               \A q \in ProviderPool :
                   QuotePrice(serviceType, tier, <<MapCallback(q)>>, formData)
                       = PagePrice(tier)

\* The form has been edited, the budget card shows a price for a provider
\* whose match score is not 100, and the premium tier has no provider and
\* no price.
C21_Witness ==
    /\ formData # InitialFormData(serviceType)
    /\ PagePrice("budget") # Null
    /\ PageMatched("budget")[1].matchScore < 100
    /\ PageMatched("premium") = <<>>
    /\ PagePrice("premium") = Null

(***************************************************************************)
(* The provider status (SpecProviders).                                    *)
(***************************************************************************)
\* C22: the status of an existing provider row changes only in a statement
\* that an administrator sent with Approve, Suspend or Reactivate; no
\* statement of a provider, of a customer, of the import or of a quote
\* page changes it.
C22_StatusChangedOnlyByAdmin ==
    [][\A id \in (DOMAIN Rows) \cap (DOMAIN providerTable'.rows) :
           providerTable'.rows[id].status # Rows[id].status =>
               /\ providerTable'.uid # Null
               /\ has_role(providerTable'.uid[1], "admin")
               /\ providerTable'.handler \in
                      {"handleApprove", "handleSuspend", "handleReactivate"}]_vars

(***************************************************************************)
(* Jobs and their payments (SpecPayments).                                 *)
(***************************************************************************)
Job == jobs[1]

\* The completion payment intents among the first n intents of Stripe.
CompletionIntents(intents) ==
    {i \in 1..Len(intents) : intents[i].type = "completion"}

\* C24: whenever the provider's job page moves the job from in_progress
\* to completed (Mark as Complete), that step creates a completion payment
\* intent for total_amount minus deposit_amount.
C24_MarkCompleteCharges ==
    [][(/\ jobs # <<>>
        /\ Job.status = "in_progress"
        /\ jobs'[1].status = "completed"
        /\ view' = "completed"
        /\ view' # view)
           => \E i \in CompletionIntents(stripe'.intents) :
                  /\ i > Len(stripe.intents)
                  /\ stripe'.intents[i].amount
                         = Job.total_amount - Job.deposit_amount]_vars

\* The job passes the checks of complete-job-payment for a caller.
PassesChecks(caller) ==
    /\ caller # Null
    /\ jobs # <<>>
    /\ Job.provider = caller[1]
    /\ Job.status = "in_progress"
    /\ Job.stripe_payment_intent_id # Null

ErrorResponses == {<<402>>, <<500>>}

C27_PastPendingOnlyWithDeposit ==
    (jobs # <<>> /\ Job.status \in {"confirmed", "in_progress", "completed", "paid"})
        => Job.stripe_payment_intent_id # Null

\* The place of a status on the way of a job; completed and paid share the
\* last place.
StatusRank(status) ==
    CASE status = "pending_deposit" -> 1
      [] status = "confirmed" -> 2
      [] status = "in_progress" -> 3
      [] status \in {"completed", "paid"} -> 4
      [] status = "cancelled" -> 5

\* C28: no step moves a job to an earlier status, and a job that is in
\* progress, completed, paid or cancelled never becomes confirmed or
\* pending_deposit again.
C28_StatusNeverMovesBack ==
    [][jobs # <<>> =>
           /\ Job.status # "cancelled" /\ jobs'[1].status # "cancelled"
                  => StatusRank(jobs'[1].status) >= StatusRank(Job.status)
           /\ Job.status \in {"in_progress", "completed", "paid", "cancelled"}
                  => jobs'[1].status \notin {"pending_deposit", "confirmed"}]_vars

\* C29: at most one completion charge goes through for the job: among the
\* payment intents of Stripe at most one completion intent has succeeded
\* or is processing.
C29_AtMostOneCompletionCharge ==
    Cardinality({i \in CompletionIntents(stripe.intents) :
                    stripe.intents[i].status \in {"succeeded", "processing"}}) <= 1

\* The totals the tier cards of the quote pages show, as texts.
CardTotals == {NumberToString(PriceTable[k].total) : k \in PriceInputs}

\* C30: for a job whose total is the total of a tier card, the deposit
\* charged at checkout plus a completion charge is the total of the job in
\* cents.
C30_ChargesAddUpToTotal ==
    \A i \in CompletionIntents(stripe.intents) :
        <<10 * Job.total_amount>> \in CardTotals =>
            stripe.session[1].unit_amount + stripe.intents[i].amount
                = Job.total_amount

====
